---- MODULE Spec2Model ----
(***************************************************************************)
(* Wall-clock video synchronisation engine (ut42tech/synchronized-          *)
(* screensaver).  The module models the controllers of the repository      *)
(* as state machines over one media element, one document and one wall     *)
(* clock:                                                                  *)
(*                                                                         *)
(*   hybrid    src/src/lib/sync.ts   three-band drift correction driven by  *)
(*             setInterval, with its host component src/unnamed/part_005   *)
(*   boundary  src/unnamed/part_000  wait-for-loop-boundary controller     *)
(*   pure      computeDrift of sync.ts and of src/unnamed/part_001,        *)
(*             evaluated on its own (SpecDrift)                            *)
(*   rvfc, interval  src/unnamed/part_001  the engine with its two tick    *)
(*             sources, requestVideoFrameCallback and the setInterval      *)
(*             fallback (SpecTickSource)                                   *)
(*   proportional  src/unnamed/part_002  the pure-proportional rate        *)
(*             controller (SpecProportional)                               *)
(*                                                                         *)
(* Units.  Wall-clock time, durations and media positions are integers in  *)
(* microseconds (Date.now() is a whole number of milliseconds, so every    *)
(* clock value is a multiple of 1000).  Playback rates are integers in     *)
(* units of 1e-5, so 1.0 is RATE_ONE, 0.97 is RATE_MIN, 1.03 is RATE_MAX    *)
(* and the 0.001 write deadband is RATE_EPS.  Floating-point rounding of   *)
(* the JavaScript doubles is not modelled: arithmetic is exact up to the   *)
(* resolution of these units.                                              *)
(***************************************************************************)
EXTENDS Integers, FiniteSets, Sequences, TLC

VARIABLES
  variant,        \* the controller attached: "hybrid", "boundary", "pure", "rvfc", ...
  now,            \* Date.now(), microseconds since the start of the run
  duration,       \* video.duration
  currentTime,    \* video.currentTime
  playbackRate,   \* video.playbackRate
  paused,         \* video.paused
  hidden,         \* document.hidden
  pc,             \* where startSync is: "idle", "seek1", "seek2", "play", "done"
  dur,            \* startSync's cached duration
  ignoreThreshold,\* startSync's ignoreThreshold (opts.driftIgnore ?? DRIFT_IGNORE)
  seekThreshold,  \* startSync's seekThreshold (opts.driftSeek ?? DRIFT_SEEK)
  timer,          \* hybrid: the `timer` variable, NULL or an interval handle
  intervals,      \* the window's live setInterval timers: records [id, due]
  visListener,    \* a visibilitychange listener of the controller is registered
  syncCleanup,    \* host component: syncCleanup has been assigned
  destroyed,      \* host component: "no", or startSync's pc when it was destroyed
  cleanups,       \* number of cleanup() calls made so far
  disturbances,   \* number of position disturbances injected so far
  stopped,        \* boundary: the `stopped` flag
  pendingTimer,   \* boundary: the `pendingTimer` variable, NULL or a timeout handle
  timeouts,       \* the window's live setTimeout timers: records [id, due]
  endedListener,  \* boundary: the ended listener is registered
  endedQueued,    \* the element has queued its ended event
  suspended,      \* the controller has handled hidden and not yet visible (observation only)
  last,           \* what the last step did (observation only)
  rejected,       \* the last step's play() request was rejected (observation only)
  cycle,          \* the last two undisturbed correction cycles (observation only)
  gain,           \* part_002: startSync's gain (opts.gain ?? GAIN)
  lastCheckTime,  \* part_001, frame-callback source: the `lastCheckTime` variable
  rvfcPending,    \* part_001: a requestVideoFrameCallback registration is pending
  corrections,    \* part_001: the clock values at which correct() ran (observation only)
  fn              \* pure-function harness: the call under evaluation

vars == <<variant, now, duration, currentTime, playbackRate, paused, hidden, pc,
          dur, ignoreThreshold, seekThreshold, timer, intervals, visListener,
          syncCleanup, destroyed, cleanups, disturbances, stopped, pendingTimer,
          timeouts, endedListener, endedQueued, suspended, last, rejected, cycle,
          gain, lastCheckTime, rvfcPending, corrections, fn>>

\* ---------------------------------------------------------------- constants

NULL == 0

\* video.duration of an element without media: NaN, which no comparison and
\* no arithmetic of the model ever reads as a number.
NaN == -1

\* src/unnamed/part_000: one rendering frame, `waitMs < 16`
FRAME_MS == 16000

\* src/src/lib/sync.ts, Configuration
DRIFT_IGNORE == 50000
DRIFT_SEEK == 300000
RATE_ONE == 100000
RATE_MIN == 97000
RATE_MAX == 103000
RATE_RANGE == RATE_MAX - RATE_ONE
RATE_EPS == 100
\* part_002: the proportional gain 0.4, in units of 0.01, and its rate bounds
\* 0.5 and 1.5.
GAIN == 40
RATE_MIN_prop == 50000
RATE_MAX_prop == 150000
CHECK_INTERVAL_MS == 2000000

\* ------------------------------------------------------------------- bounds

\* computeDrift is evaluated for durations 1..MaxPureDuration, every position
\* 0..duration of the element and clock values 0..MaxPureClock.
MaxPureDuration == 6
MaxPureClock == 12

\* The run ends when the clock reaches MaxNow.
MaxNow == 6000000
\* How many times the hybrid controller's element is disturbed (decode stall, skip).
MaxDisturb == 1
\* How many times the boundary controller's element is disturbed.
MaxSkips == 2
\* How many times a holder of the handle calls cleanup().
MaxCleanups == 2

\* video.duration values of the loaded media.
Durations == {4000000}
\* Wall-clock values at which the metadata-loaded event arrives.
StartTimes == {0, 3900000}
\* Steps by which the clock advances between events.
ElapseSteps == {CHECK_INTERVAL_MS}
\* Time a seek takes: from the write of currentTime to its seeked event.
SeekLatencies == {0, 20000, 50000}
\* video.duration values correct() of part_001 guards against: NaN and 0.
InvalidDurations == {NaN, 0}
\* Position disturbances: > 0 the element falls behind, < 0 it runs ahead.
DisturbSteps == {50000, 300000, -60000, -300000}
\* opts passed to startSync: [] is the empty options object.
OptionSets ==
  { [driftIgnore |-> NULL, driftSeek |-> NULL],
    [driftIgnore |-> 10000, driftSeek |-> 30000],
    [driftIgnore |-> 5000, driftSeek |-> NULL] }

\* ------------------------------------------------------------- pure helpers

Abs(x) == IF x < 0 THEN -x ELSE x
Min(a, b) == IF a < b THEN a ELSE b
Max(a, b) == IF a > b THEN a ELSE b

\* Mutant: the clock value itself, not reduced modulo the duration.
getTargetTime_unreduced(d, t) == t

\* (Date.now() / 1000) % duration, with t the value of Date.now().
getTargetTime(d, t) == t % d

\* Mutant: the raw difference, without the wrap-around.
computeDrift_noWrap(ct, d, t) == (t % d) - ct

\* Mutant: only the wrap of a raw difference above +duration/2 is made.
computeDrift_wrapsDownOnly(ct, d, t) ==
  LET raw == (t % d) - ct
  IN  IF 2 * raw > d THEN raw - d ELSE raw

\* Mutant: a raw difference of exactly -duration/2 wrapped as well.
computeDrift_halfOpen(ct, d, t) ==
  LET raw == (t % d) - ct
  IN  IF 2 * raw > d THEN raw - d
      ELSE IF 2 * raw <= -d THEN raw + d
      ELSE raw

\* computeDrift of sync.ts; `raw > duration * 0.5` is compared doubled.
computeDrift(ct, d, t) ==
  LET target == t % d
      raw == target - ct
  IN  IF 2 * raw > d THEN raw - d
      ELSE IF 2 * raw < -d THEN raw + d
      ELSE raw

\* Math.sign
sign(x) == IF x > 0 THEN 1 ELSE IF x < 0 THEN -1 ELSE 0

\* computeDrift of part_001: `if (Math.abs(raw) > duration / 2) return
\* raw - Math.sign(raw) * duration`.
computeDrift_rvfc(ct, d, t) ==
  LET raw == getTargetTime(d, t) - ct
  IN  IF 2 * Abs(raw) > d THEN raw - sign(raw) * d ELSE raw

\* ------------------------------------------------- hybrid: correction cycle

\* The three bands of correct(): `absDrift < ignoreThreshold`, then
\* `absDrift >= seekThreshold`, else the proportional nudge.
isNegligible(absDrift, ignore) == absDrift < ignore

\* Mutant: the hard threshold compared strictly.
isHardSeek_strict(absDrift, seek) == absDrift > seek

isHardSeek(absDrift, seek) == absDrift >= seek

\* Mutant: the two directions of the nudge exchanged.
newRate_inverted(drift, seek) ==
  LET absDrift == Abs(drift)
      adjustment == (absDrift * RATE_RANGE) \div seek
  IN  IF drift > 0 THEN Max(RATE_ONE - adjustment, RATE_MIN)
      ELSE Min(RATE_ONE + adjustment, RATE_MAX)

\* factor = absDrift / seekThreshold; adjustment = factor * RATE_RANGE;
\* newRate = drift > 0 ? min(1 + adjustment, RATE_MAX) : max(1 - adjustment, RATE_MIN)
newRate(drift, seek) ==
  LET absDrift == Abs(drift)
      adjustment == (absDrift * RATE_RANGE) \div seek
  IN  IF drift > 0 THEN Min(RATE_ONE + adjustment, RATE_MAX)
      ELSE Max(RATE_ONE - adjustment, RATE_MIN)

\* Mutant: the rate is written whenever it differs at all.
rateChanged_exact(rate, nr) == rate # nr

\* rateDelta = video.playbackRate - newRate; write when it exceeds 0.001.
rateChanged(rate, nr) ==
  LET rateDelta == rate - nr
  IN  rateDelta > RATE_EPS \/ rateDelta < -RATE_EPS

\* What a step leaves in `last`: the handler that ran, the band and drift of a
\* correction cycle, whether currentTime and playbackRate were assigned,
\* whether play() was called, and the rate the handler found.
Obs(op, band, drift, wt, wr, pl, rate0) ==
  [op |-> op, band |-> band, drift |-> drift,
   wroteTime |-> wt, wroteRate |-> wr, played |-> pl, rate0 |-> rate0]

\* Mutant: a correction cycle that re-seeks a paused element.
onPaused_seeks(ct, rate) ==
  [currentTime |-> now % dur, playbackRate |-> rate,
   obs |-> Obs("tick", "paused", 0, TRUE, FALSE, FALSE, rate)]

\* correct(), `if (video.paused) return`.
onPaused(ct, rate) ==
  [currentTime |-> ct, playbackRate |-> rate,
   obs |-> Obs("tick", "paused", 0, FALSE, FALSE, FALSE, rate)]

\* Mutant: the negligible band leaves the rate as it found it.
onNegligible_noReset(ct, rate, drift) ==
  [currentTime |-> ct, playbackRate |-> rate,
   obs |-> Obs("tick", "negligible", drift, FALSE, FALSE, FALSE, rate)]

\* correct(), negligible drift: `if (video.playbackRate !== 1) video.playbackRate = 1`.
onNegligible(ct, rate, drift) ==
  [currentTime |-> ct, playbackRate |-> RATE_ONE,
   obs |-> Obs("tick", "negligible", drift, FALSE, rate # RATE_ONE, FALSE, rate)]

\* Mutant: the hard seek without the rate reset.
onHardSeek_keepsRate(ct, rate, drift, t) ==
  [currentTime |-> t % dur, playbackRate |-> rate,
   obs |-> Obs("tick", "hard", drift, TRUE, FALSE, FALSE, rate)]

\* Mutant: a hard band that resets the rate but does not seek.
onHardSeek_noSeek(ct, rate, drift, t) ==
  [currentTime |-> ct, playbackRate |-> RATE_ONE,
   obs |-> Obs("tick", "hard", drift, FALSE, TRUE, FALSE, rate)]

\* correct(), large drift: `video.playbackRate = 1; video.currentTime = (Date.now() / 1000) % dur`.
onHardSeek(ct, rate, drift, t) ==
  [currentTime |-> t % dur, playbackRate |-> RATE_ONE,
   obs |-> Obs("tick", "hard", drift, TRUE, TRUE, FALSE, rate)]

\* correct(), small drift: the proportional nudge, written only past the deadband.
onGradual(ct, rate, drift) ==
  LET nr == newRate(drift, seekThreshold)
      w == rateChanged(rate, nr)
  IN  [currentTime |-> ct, playbackRate |-> IF w THEN nr ELSE rate,
       obs |-> Obs("tick", "gradual", drift, FALSE, w, FALSE, rate)]

\* correct(): the element's position and rate after one correction cycle run
\* at clock value t, with the band taken and the writes made.
correct(ct, rate, p, t) ==
  IF p
  THEN onPaused(ct, rate)
  ELSE
    LET drift == computeDrift(ct, dur, t)
        absDrift == IF drift > 0 THEN drift ELSE -drift
    IN  IF isNegligible(absDrift, ignoreThreshold)
        THEN onNegligible(ct, rate, drift)
        ELSE IF isHardSeek(absDrift, seekThreshold)
        THEN onHardSeek(ct, rate, drift, t)
        ELSE onGradual(ct, rate, drift)

\* ---------------------------------------------------- hybrid: timer lifecycle

\* setInterval's handle: the smallest id no live interval uses.
FreshId(ts) == CHOOSE i \in 1..(Cardinality(ts) + 1) : \A t \in ts : t.id # i

\* Mutant: startTimer() without its `timer !== null` guard.
startTimer_unguarded(tm, ivs) ==
  [timer |-> FreshId(ivs),
   intervals |-> ivs \cup {[id |-> FreshId(ivs), due |-> now + CHECK_INTERVAL_MS]}]

\* startTimer(): `if (timer !== null) return; timer = setInterval(...)`.
startTimer(tm, ivs) ==
  IF tm # NULL
  THEN [timer |-> tm, intervals |-> ivs]
  ELSE [timer |-> FreshId(ivs),
        intervals |-> ivs \cup {[id |-> FreshId(ivs), due |-> now + CHECK_INTERVAL_MS]}]

\* Mutant: stopTimer() that forgets the handle without clearInterval.
stopTimer_leaksInterval(tm, ivs) ==
  [timer |-> NULL, intervals |-> ivs]

\* stopTimer(): `if (timer !== null) { clearInterval(timer); timer = null; }`.
stopTimer(tm, ivs) ==
  IF tm # NULL
  THEN [timer |-> NULL, intervals |-> {t \in ivs : t.id # tm}]
  ELSE [timer |-> tm, intervals |-> ivs]

\* Mutant: cleanup() without its stopTimer() call.
cleanup_keepsTimer(tm, ivs, rate) ==
  [timer |-> tm, intervals |-> ivs, visListener |-> FALSE,
   playbackRate |-> RATE_ONE, wroteRate |-> rate # RATE_ONE]

\* Mutant: cleanup() without its playbackRate reset.
cleanup_keepsRate(tm, ivs, rate) ==
  [timer |-> NULL, intervals |-> {t \in ivs : t.id # tm}, visListener |-> FALSE,
   playbackRate |-> rate, wroteRate |-> FALSE]

\* cleanup() of the hybrid controller: stopTimer(), removeEventListener,
\* `if (video.playbackRate !== 1) video.playbackRate = 1`.
cleanup(tm, ivs, rate) ==
  LET s == stopTimer(tm, ivs)
  IN  [timer |-> s.timer, intervals |-> s.intervals, visListener |-> FALSE,
       playbackRate |-> RATE_ONE, wroteRate |-> rate # RATE_ONE]

\* ------------------------------------------------------- the media element

\* Position gained in dt microseconds of wall-clock time at the given rate
\* (dt is a whole number of milliseconds; the result is cut to a microsecond).
Advance(dt, rate) == ((dt \div 1000) * rate) \div 100

\* video.play(): the request is honoured (paused becomes false) or refused by
\* the autoplay policy (the promise rejects and the element stays as it was).
PlayOutcomes == {"allowed", "blocked"}

\* Mutant: a refused play() request starts the element all the same.
afterPlay_alwaysStarts(p, outcome) == FALSE

afterPlay(p, outcome) == IF outcome = "allowed" THEN FALSE ELSE p

\* The promise play() returns rejects when the policy refuses to start a
\* paused element; on an element already playing it resolves.
playRejected(p, outcome) == p /\ outcome = "blocked"

\* `cycle` holds the band and drift of the latest correction cycle and of the
\* one before it, as long as nothing but the passing of time and the
\* controller's own corrections has touched the element in between.
NoCycle == [band |-> "none", drift |-> 0, prevBand |-> "none", prevDrift |-> 0]

nextCycle(c, obs) ==
  [band |-> obs.band, drift |-> obs.drift, prevBand |-> c.band, prevDrift |-> c.drift]

boundaryVars == <<stopped, pendingTimer, timeouts, endedListener, endedQueued>>
optionVars == <<dur, ignoreThreshold, seekThreshold>>
tickSourceVars == <<lastCheckTime, rvfcPending, corrections>>
hostVars == <<syncCleanup, destroyed>>

\* ------------------------------------------------- hybrid: startSync, host

\* part_005 onLoadedMetadata calls startSync(videoEl, opts); startSync reads
\* the options and the duration and runs seekToTarget up to its await.
StartSync(o) ==
  /\ variant = "hybrid"
  /\ pc = "idle"
  /\ destroyed = "no"
  /\ ignoreThreshold' = IF o.driftIgnore = NULL THEN DRIFT_IGNORE ELSE o.driftIgnore
  /\ seekThreshold' = IF o.driftSeek = NULL THEN DRIFT_SEEK ELSE o.driftSeek
  /\ dur' = duration
  /\ currentTime' = now % duration
  /\ pc' = "seek1"
  /\ last' = Obs("seekToTarget", "none", 0, TRUE, FALSE, FALSE, playbackRate)
  /\ UNCHANGED <<variant, now, duration, playbackRate, paused, hidden, timer,
                 intervals, visListener, cleanups, disturbances, fn, cycle>>
  /\ UNCHANGED hostVars
  /\ UNCHANGED boundaryVars
  /\ UNCHANGED suspended
  /\ UNCHANGED gain
  /\ UNCHANGED tickSourceVars
  /\ rejected' = FALSE

\* Mutant: the fine-tune seek only for a drift above ignoreThreshold.
needsSecondSeek_strict(ct, d, t, ignore) == Abs(computeDrift(ct, d, t)) > ignore

\* startSync, fine-tune: `Math.abs(computeDrift(video.currentTime, dur)) >= ignoreThreshold`.
needsSecondSeek(ct, d, t, ignore) == Abs(computeDrift(ct, d, t)) >= ignore

\* The first seek's seeked event, lat after the seek was requested: startSync seeks again when the drift is not
\* below ignoreThreshold, and otherwise goes on to video.play().
Seeked1(lat, outcome) ==
  /\ variant = "hybrid"
  /\ pc = "seek1"
  /\ now + lat <= MaxNow
  /\ now' = now + lat
  /\ IF needsSecondSeek(currentTime, dur, now', ignoreThreshold)
     THEN /\ currentTime' = now' % dur
          /\ pc' = "seek2"
          /\ paused' = paused
          /\ last' = Obs("seekToTarget", "none", 0, TRUE, FALSE, FALSE, playbackRate)
     ELSE /\ currentTime' = currentTime
          /\ pc' = "play"
          /\ paused' = afterPlay(paused, outcome)
          /\ last' = Obs("play", "none", 0, FALSE, FALSE, TRUE, playbackRate)
  /\ UNCHANGED <<variant, duration, playbackRate, hidden, timer, intervals,
                 visListener, cleanups, disturbances, fn, cycle>>
  /\ UNCHANGED optionVars
  /\ UNCHANGED hostVars
  /\ UNCHANGED boundaryVars
  /\ UNCHANGED suspended
  /\ UNCHANGED gain
  /\ UNCHANGED tickSourceVars
  /\ rejected' = (pc' = "play" /\ playRejected(paused, outcome))

\* The second seek's seeked event, lat after its request: startSync goes on to video.play().
Seeked2(lat, outcome) ==
  /\ variant = "hybrid"
  /\ pc = "seek2"
  /\ now + lat <= MaxNow
  /\ now' = now + lat
  /\ pc' = "play"
  /\ paused' = afterPlay(paused, outcome)
  /\ last' = Obs("play", "none", 0, FALSE, FALSE, TRUE, playbackRate)
  /\ UNCHANGED <<variant, duration, currentTime, playbackRate, hidden, timer,
                 intervals, visListener, cleanups, disturbances, fn, cycle>>
  /\ UNCHANGED optionVars
  /\ UNCHANGED hostVars
  /\ UNCHANGED boundaryVars
  /\ UNCHANGED suspended
  /\ UNCHANGED gain
  /\ UNCHANGED tickSourceVars
  /\ rejected' = playRejected(paused, outcome)

\* The play() promise settles (either way): startSync registers the
\* visibilitychange listener, starts the timer and returns the handle, and
\* onLoadedMetadata's continuation stores it in syncCleanup.
PlaySettled ==
  /\ variant = "hybrid"
  /\ pc = "play"
  /\ LET s == startTimer(timer, intervals)
     IN  /\ timer' = s.timer
         /\ intervals' = s.intervals
  /\ visListener' = TRUE
  /\ pc' = "done"
  /\ syncCleanup' = TRUE
  /\ last' = Obs("attached", "none", 0, FALSE, FALSE, FALSE, playbackRate)
  /\ UNCHANGED <<variant, now, duration, currentTime, playbackRate, paused, hidden,
                 destroyed, cleanups, disturbances, fn, cycle>>
  /\ UNCHANGED optionVars
  /\ UNCHANGED boundaryVars
  /\ UNCHANGED suspended
  /\ UNCHANGED gain
  /\ UNCHANGED tickSourceVars
  /\ rejected' = FALSE

\* An interval timer fires: correct() runs once and the timer is due again
\* CHECK_INTERVAL_MS later.
Tick(t) ==
  /\ variant = "hybrid"
  /\ t \in intervals
  /\ t.due <= now
  /\ LET c == correct(currentTime, playbackRate, paused, now)
     IN  /\ currentTime' = c.currentTime
         /\ playbackRate' = c.playbackRate
         /\ last' = c.obs
  /\ intervals' = (intervals \ {t}) \cup {[id |-> t.id, due |-> t.due + CHECK_INTERVAL_MS]}
  /\ UNCHANGED <<variant, now, duration, paused, hidden, pc, timer, visListener,
                 cleanups, disturbances, fn>>
  /\ cycle' = nextCycle(cycle, last')
  /\ UNCHANGED optionVars
  /\ UNCHANGED hostVars
  /\ UNCHANGED boundaryVars
  /\ UNCHANGED suspended
  /\ UNCHANGED gain
  /\ UNCHANGED tickSourceVars
  /\ rejected' = FALSE

\* The document's visibility changes.  Without a registered listener only
\* document.hidden changes; with one, onVisibilityChange runs: stopTimer()
\* when hidden, else re-seek, play() if paused, startTimer().
VisibilityChange(outcome) ==
  /\ variant = "hybrid"
  /\ hidden' = ~hidden
  /\ IF ~visListener
     THEN /\ UNCHANGED <<currentTime, paused, timer, intervals>>
          /\ last' = Obs("unobserved", "none", 0, FALSE, FALSE, FALSE, playbackRate)
     ELSE IF hidden'
     THEN /\ LET s == stopTimer(timer, intervals)
             IN  /\ timer' = s.timer
                 /\ intervals' = s.intervals
          /\ UNCHANGED <<currentTime, paused>>
          /\ last' = Obs("hidden", "none", 0, FALSE, FALSE, FALSE, playbackRate)
     ELSE /\ currentTime' = now % dur
          /\ paused' = IF paused THEN afterPlay(paused, outcome) ELSE paused
          /\ LET s == startTimer(timer, intervals)
             IN  /\ timer' = s.timer
                 /\ intervals' = s.intervals
          /\ last' = Obs("visible", "none", 0, TRUE, FALSE, paused, playbackRate)
  /\ UNCHANGED <<variant, now, duration, playbackRate, pc, visListener, cleanups,
                 disturbances, fn>>
  /\ cycle' = IF visListener THEN NoCycle ELSE cycle
  /\ UNCHANGED optionVars
  /\ UNCHANGED hostVars
  /\ UNCHANGED boundaryVars
  /\ suspended' = IF visListener THEN hidden' ELSE suspended
  /\ UNCHANGED gain
  /\ UNCHANGED tickSourceVars
  /\ rejected' = (visListener /\ ~hidden' /\ playRejected(paused, outcome))

\* A holder of the handle startSync returned calls cleanup().
Cleanup ==
  /\ variant = "hybrid"
  /\ pc = "done"
  /\ cleanups < MaxCleanups
  /\ LET c == cleanup(timer, intervals, playbackRate)
     IN  /\ timer' = c.timer
         /\ intervals' = c.intervals
         /\ visListener' = c.visListener
         /\ playbackRate' = c.playbackRate
         /\ last' = Obs("cleanup", "none", 0, FALSE, c.wroteRate, FALSE, playbackRate)
  /\ cleanups' = cleanups + 1
  /\ UNCHANGED <<variant, now, duration, currentTime, paused, hidden, pc,
                 disturbances, fn>>
  /\ cycle' = NoCycle
  /\ UNCHANGED optionVars
  /\ UNCHANGED hostVars
  /\ UNCHANGED boundaryVars
  /\ UNCHANGED suspended
  /\ UNCHANGED gain
  /\ UNCHANGED tickSourceVars
  /\ rejected' = FALSE

\* The host component is destroyed: its effect teardown runs `syncCleanup?.()`,
\* which calls cleanup() only when startSync has already resolved.
Destroy ==
  /\ variant = "hybrid"
  /\ destroyed = "no"
  /\ destroyed' = pc
  /\ IF syncCleanup
     THEN LET c == cleanup(timer, intervals, playbackRate)
          IN  /\ timer' = c.timer
              /\ intervals' = c.intervals
              /\ visListener' = c.visListener
              /\ playbackRate' = c.playbackRate
              /\ cleanups' = cleanups + 1
              /\ last' = Obs("cleanup", "none", 0, FALSE, c.wroteRate, FALSE, playbackRate)
     ELSE /\ UNCHANGED <<timer, intervals, visListener, playbackRate, cleanups>>
          /\ last' = Obs("destroy", "none", 0, FALSE, FALSE, FALSE, playbackRate)
  /\ UNCHANGED <<variant, now, duration, currentTime, paused, hidden, pc,
                 syncCleanup, disturbances, fn>>
  /\ cycle' = IF syncCleanup THEN NoCycle ELSE cycle
  /\ UNCHANGED optionVars
  /\ UNCHANGED boundaryVars
  /\ UNCHANGED suspended
  /\ UNCHANGED gain
  /\ UNCHANGED tickSourceVars
  /\ rejected' = FALSE

\* ------------------------------------------------------------ environment

\* Wall-clock time passes, never past a live timer's due time.  A playing
\* element advances at its playback rate; the hybrid controller's element
\* loops natively, so its position wraps at the duration.
Elapse(dt) ==
  /\ variant = "hybrid"
  /\ pc = "done"
  /\ now + dt <= MaxNow
  /\ \A t \in intervals : now + dt <= t.due
  /\ now' = now + dt
  /\ currentTime' = IF paused \/ duration \in InvalidDurations THEN currentTime
                    ELSE (currentTime + Advance(dt, playbackRate)) % duration
  /\ last' = Obs("elapse", "none", 0, FALSE, FALSE, FALSE, playbackRate)
  /\ UNCHANGED <<variant, duration, playbackRate, paused, hidden, pc, timer,
                 intervals, visListener, cleanups, disturbances, fn, cycle>>
  /\ UNCHANGED optionVars
  /\ UNCHANGED hostVars
  /\ UNCHANGED boundaryVars
  /\ UNCHANGED suspended
  /\ UNCHANGED gain
  /\ UNCHANGED tickSourceVars
  /\ rejected' = FALSE

\* The playing element's position is disturbed (a decode stall leaves it
\* behind, a skipped stretch puts it ahead) while the controller is attached.
Disturb(d) ==
  /\ variant = "hybrid"
  /\ pc = "done"
  /\ visListener
  /\ ~paused
  /\ duration \notin InvalidDurations
  /\ disturbances < MaxDisturb
  /\ disturbances' = disturbances + 1
  /\ currentTime' = (currentTime - d) % duration
  /\ last' = Obs("disturb", "none", 0, FALSE, FALSE, FALSE, playbackRate)
  /\ UNCHANGED <<variant, now, duration, playbackRate, paused, hidden, pc, timer,
                 intervals, visListener, cleanups, fn>>
  /\ cycle' = NoCycle
  /\ UNCHANGED optionVars
  /\ UNCHANGED hostVars
  /\ UNCHANGED boundaryVars
  /\ UNCHANGED suspended
  /\ UNCHANGED gain
  /\ UNCHANGED tickSourceVars
  /\ rejected' = FALSE

\* The element loses its media while the hybrid controller is attached (its
\* source is replaced or removed and the load algorithm runs): the element is
\* paused at position 0 with rate 1, and reports the duration d, NaN or 0,
\* until new metadata arrives.  startSync's cached `dur` is not touched.
MediaReset(d) ==
  /\ variant = "hybrid"
  /\ pc = "done"
  /\ visListener
  /\ duration \notin InvalidDurations
  /\ disturbances < MaxDisturb
  /\ disturbances' = disturbances + 1
  /\ duration' = d
  /\ currentTime' = 0
  /\ paused' = TRUE
  /\ playbackRate' = RATE_ONE
  /\ last' = Obs("reset", "none", 0, FALSE, FALSE, FALSE, playbackRate)
  /\ UNCHANGED <<variant, now, hidden, pc, timer, intervals, visListener, cleanups, fn>>
  /\ cycle' = NoCycle
  /\ UNCHANGED optionVars
  /\ UNCHANGED hostVars
  /\ UNCHANGED boundaryVars
  /\ UNCHANGED suspended
  /\ UNCHANGED gain
  /\ UNCHANGED tickSourceVars
  /\ rejected' = FALSE

\* --------------------------------- boundary controller (src/unnamed/part_000)

hybridVars == <<ignoreThreshold, seekThreshold, timer, intervals, playbackRate, cycle>>

\* Mutant: scheduleNextLoop() that seeks to 0 but never arms its timeout.
scheduleNextLoop_noTimeout(st, pt, tos, ct, p, t, outcome) ==
  IF st
  THEN [pendingTimer |-> pt, timeouts |-> tos, currentTime |-> ct, paused |-> p,
        wroteTime |-> FALSE, played |-> FALSE]
  ELSE
    LET elapsed == t % dur
        remaining == dur - elapsed
        waitMs == IF elapsed <= remaining THEN 0 ELSE remaining
    IN  IF waitMs < FRAME_MS
        THEN [pendingTimer |-> pt, timeouts |-> tos, currentTime |-> 0,
              paused |-> afterPlay(p, outcome), wroteTime |-> TRUE, played |-> TRUE]
        ELSE [pendingTimer |-> pt, timeouts |-> tos, currentTime |-> 0,
              paused |-> p, wroteTime |-> TRUE, played |-> FALSE]

\* scheduleNextLoop(): nothing once stopped; else seek to 0 and either play
\* at once (the boundary was just passed, or is less than a frame away) or
\* set a timeout for the next boundary, stored in pendingTimer.
scheduleNextLoop(st, pt, tos, ct, p, t, outcome) ==
  IF st
  THEN [pendingTimer |-> pt, timeouts |-> tos, currentTime |-> ct, paused |-> p,
        wroteTime |-> FALSE, played |-> FALSE]
  ELSE
    LET elapsed == t % dur
        remaining == dur - elapsed
        waitMs == IF elapsed <= remaining THEN 0 ELSE remaining
    IN  IF waitMs < FRAME_MS
        THEN [pendingTimer |-> pt, timeouts |-> tos, currentTime |-> 0,
              paused |-> afterPlay(p, outcome), wroteTime |-> TRUE, played |-> TRUE]
        ELSE [pendingTimer |-> FreshId(tos),
              timeouts |-> tos \cup {[id |-> FreshId(tos), due |-> t + waitMs]},
              currentTime |-> 0, paused |-> p, wroteTime |-> TRUE, played |-> FALSE]

\* Mutant: cleanup() of the boundary controller that leaves both listeners.
cleanup_boundary_keepsListeners(pt, tos) ==
  [stopped |-> TRUE, pendingTimer |-> pt,
   timeouts |-> IF pt # NULL THEN {t \in tos : t.id # pt} ELSE tos,
   endedListener |-> endedListener, visListener |-> visListener]

\* cleanup() of the boundary controller: stopped = true, clearTimeout of a
\* non-null pendingTimer (the variable keeps its value), both listeners removed.
cleanup_boundary(pt, tos) ==
  [stopped |-> TRUE, pendingTimer |-> pt,
   timeouts |-> IF pt # NULL THEN {t \in tos : t.id # pt} ELSE tos,
   endedListener |-> FALSE, visListener |-> FALSE]

\* startSync of part_000 up to its first await: `video.currentTime =
\* getTargetTime(dur)`, then the wait for seeked.
StartSync_boundary ==
  /\ variant = "boundary"
  /\ pc = "idle"
  /\ destroyed = "no"
  /\ dur' = duration
  /\ currentTime' = getTargetTime(duration, now)
  /\ pc' = "seek1"
  /\ last' = Obs("seekToTarget", "none", 0, TRUE, FALSE, FALSE, playbackRate)
  /\ UNCHANGED <<variant, now, duration, paused, hidden, visListener, cleanups,
                 disturbances, suspended, fn>>
  /\ UNCHANGED hybridVars
  /\ UNCHANGED hostVars
  /\ UNCHANGED boundaryVars
  /\ UNCHANGED gain
  /\ UNCHANGED tickSourceVars
  /\ rejected' = FALSE

\* The seeked event, lat after the seek: startSync calls video.play().
Seeked_boundary(lat, outcome) ==
  /\ variant = "boundary"
  /\ pc = "seek1"
  /\ now + lat <= MaxNow
  /\ now' = now + lat
  /\ pc' = "play"
  /\ paused' = afterPlay(paused, outcome)
  /\ last' = Obs("play", "none", 0, FALSE, FALSE, TRUE, playbackRate)
  /\ UNCHANGED <<variant, duration, currentTime, hidden, dur, visListener, cleanups,
                 disturbances, suspended, fn>>
  /\ UNCHANGED hybridVars
  /\ UNCHANGED hostVars
  /\ UNCHANGED boundaryVars
  /\ UNCHANGED gain
  /\ UNCHANGED tickSourceVars
  /\ rejected' = playRejected(paused, outcome)

\* The play() promise settles: startSync registers the ended and
\* visibilitychange listeners and returns the handle to the host.
PlaySettled_boundary ==
  /\ variant = "boundary"
  /\ pc = "play"
  /\ endedListener' = TRUE
  /\ visListener' = TRUE
  /\ pc' = "done"
  /\ syncCleanup' = TRUE
  /\ last' = Obs("attached", "none", 0, FALSE, FALSE, FALSE, playbackRate)
  /\ UNCHANGED <<variant, now, duration, currentTime, paused, hidden, dur, destroyed,
                 cleanups, disturbances, stopped, pendingTimer, timeouts,
                 endedQueued, suspended, fn>>
  /\ UNCHANGED hybridVars
  /\ UNCHANGED gain
  /\ UNCHANGED tickSourceVars
  /\ rejected' = FALSE

\* The element's queued end-of-media task runs: the element is paused and
\* ended is fired; onEnded calls scheduleNextLoop().
Ended(outcome) ==
  /\ variant = "boundary"
  /\ endedQueued
  /\ endedQueued' = FALSE
  /\ IF endedListener
     THEN LET r == scheduleNextLoop(stopped, pendingTimer, timeouts, currentTime,
                                    TRUE, now, outcome)
          IN  /\ pendingTimer' = r.pendingTimer
              /\ timeouts' = r.timeouts
              /\ currentTime' = r.currentTime
              /\ paused' = r.paused
              /\ last' = Obs("ended", "none", 0, r.wroteTime, FALSE, r.played, playbackRate)
     ELSE /\ paused' = TRUE
          /\ UNCHANGED <<pendingTimer, timeouts, currentTime>>
          /\ last' = Obs("unobserved", "none", 0, FALSE, FALSE, FALSE, playbackRate)
  /\ UNCHANGED <<variant, now, duration, hidden, pc, dur, visListener, cleanups,
                 disturbances, stopped, endedListener, suspended, fn>>
  /\ UNCHANGED hybridVars
  /\ UNCHANGED hostVars
  /\ UNCHANGED gain
  /\ UNCHANGED tickSourceVars
  /\ rejected' = (last'.played /\ playRejected(TRUE, outcome))

\* A timeout set by scheduleNextLoop fires: `if (stopped) return;
\* pendingTimer = null; video.play()`.
TimeoutFire(t, outcome) ==
  /\ variant = "boundary"
  /\ t \in timeouts
  /\ t.due <= now
  /\ timeouts' = timeouts \ {t}
  /\ IF stopped
     THEN /\ UNCHANGED <<pendingTimer, paused>>
          /\ last' = Obs("timeout", "none", 0, FALSE, FALSE, FALSE, playbackRate)
     ELSE /\ pendingTimer' = NULL
          /\ paused' = afterPlay(paused, outcome)
          /\ last' = Obs("timeout", "none", 0, FALSE, FALSE, TRUE, playbackRate)
  /\ UNCHANGED <<variant, now, duration, currentTime, hidden, pc, dur, visListener,
                 cleanups, disturbances, stopped, endedListener, endedQueued,
                 suspended, fn>>
  /\ UNCHANGED hybridVars
  /\ UNCHANGED hostVars
  /\ UNCHANGED gain
  /\ UNCHANGED tickSourceVars
  /\ rejected' = (~stopped /\ playRejected(paused, outcome))

\* The document's visibility changes; with the listener registered,
\* onVisibilityChange runs: hidden clears pendingTimer and pauses, visible
\* re-seeks to the target and plays.
VisibilityChange_boundary(outcome) ==
  /\ variant = "boundary"
  /\ hidden' = ~hidden
  /\ IF ~visListener
     THEN /\ UNCHANGED <<currentTime, paused, pendingTimer, timeouts, suspended>>
          /\ last' = Obs("unobserved", "none", 0, FALSE, FALSE, FALSE, playbackRate)
     ELSE IF hidden'
     THEN /\ pendingTimer' = NULL
          /\ timeouts' = IF pendingTimer # NULL
                         THEN {t \in timeouts : t.id # pendingTimer}
                         ELSE timeouts
          /\ paused' = TRUE
          /\ suspended' = TRUE
          /\ UNCHANGED currentTime
          /\ last' = Obs("hidden", "none", 0, FALSE, FALSE, FALSE, playbackRate)
     ELSE /\ currentTime' = getTargetTime(dur, now)
          /\ paused' = afterPlay(paused, outcome)
          /\ suspended' = FALSE
          /\ UNCHANGED <<pendingTimer, timeouts>>
          /\ last' = Obs("visible", "none", 0, TRUE, FALSE, TRUE, playbackRate)
  /\ UNCHANGED <<variant, now, duration, pc, dur, visListener, cleanups,
                 disturbances, stopped, endedListener, endedQueued, fn>>
  /\ UNCHANGED hybridVars
  /\ UNCHANGED hostVars
  /\ UNCHANGED gain
  /\ UNCHANGED tickSourceVars
  /\ rejected' = (visListener /\ ~hidden' /\ playRejected(paused, outcome))

\* A holder of the handle startSync returned calls cleanup().
Cleanup_boundary ==
  /\ variant = "boundary"
  /\ pc = "done"
  /\ cleanups < MaxCleanups
  /\ LET c == cleanup_boundary(pendingTimer, timeouts)
     IN  /\ stopped' = c.stopped
         /\ pendingTimer' = c.pendingTimer
         /\ timeouts' = c.timeouts
         /\ endedListener' = c.endedListener
         /\ visListener' = c.visListener
  /\ cleanups' = cleanups + 1
  /\ last' = Obs("cleanup", "none", 0, FALSE, FALSE, FALSE, playbackRate)
  /\ UNCHANGED <<variant, now, duration, currentTime, paused, hidden, pc, dur,
                 disturbances, endedQueued, suspended, fn>>
  /\ UNCHANGED hybridVars
  /\ UNCHANGED hostVars
  /\ UNCHANGED gain
  /\ UNCHANGED tickSourceVars
  /\ rejected' = FALSE

\* The host component is destroyed: `syncCleanup?.()`.
Destroy_boundary ==
  /\ variant = "boundary"
  /\ destroyed = "no"
  /\ destroyed' = pc
  /\ IF syncCleanup
     THEN LET c == cleanup_boundary(pendingTimer, timeouts)
          IN  /\ stopped' = c.stopped
              /\ pendingTimer' = c.pendingTimer
              /\ timeouts' = c.timeouts
              /\ endedListener' = c.endedListener
              /\ visListener' = c.visListener
              /\ cleanups' = cleanups + 1
              /\ last' = Obs("cleanup", "none", 0, FALSE, FALSE, FALSE, playbackRate)
     ELSE /\ UNCHANGED <<stopped, pendingTimer, timeouts, endedListener,
                         visListener, cleanups>>
          /\ last' = Obs("destroy", "none", 0, FALSE, FALSE, FALSE, playbackRate)
  /\ UNCHANGED <<variant, now, duration, currentTime, paused, hidden, pc, dur,
                 syncCleanup, disturbances, endedQueued, suspended, fn>>
  /\ UNCHANGED hybridVars
  /\ UNCHANGED gain
  /\ UNCHANGED tickSourceVars
  /\ rejected' = FALSE

\* Wall-clock time passes, never past a live timeout's due time nor past the
\* end of the media.  The boundary controller's element does not loop: a
\* playing element that reaches its duration stops there and queues ended.
Elapse_boundary(dt) ==
  /\ variant = "boundary"
  /\ pc = "done"
  /\ dt > 0
  /\ now + dt <= MaxNow
  /\ \A t \in timeouts : now + dt <= t.due
  /\ now' = now + dt
  /\ IF paused \/ currentTime = duration
     THEN UNCHANGED <<currentTime, endedQueued>>
     ELSE /\ currentTime + Advance(dt, playbackRate) <= duration
          /\ currentTime' = currentTime + Advance(dt, playbackRate)
          /\ endedQueued' = (currentTime' = duration)
  /\ last' = Obs("elapse", "none", 0, FALSE, FALSE, FALSE, playbackRate)
  /\ UNCHANGED <<variant, duration, paused, hidden, pc, dur, visListener, cleanups,
                 disturbances, stopped, pendingTimer, timeouts, endedListener,
                 suspended, fn>>
  /\ UNCHANGED hybridVars
  /\ UNCHANGED hostVars
  /\ UNCHANGED gain
  /\ UNCHANGED tickSourceVars
  /\ rejected' = FALSE

\* The clock steps the boundary controller's run may take: the fixed steps,
\* the time to the end of the media, the time to a timeout.
BoundarySteps ==
  ElapseSteps \cup {t.due - now : t \in timeouts}
    \cup (IF paused THEN {} ELSE {duration - currentTime})

\* The playing element's position is disturbed within the media.
Disturb_boundary(d) ==
  /\ variant = "boundary"
  /\ pc = "done"
  /\ ~stopped
  /\ ~paused
  /\ ~endedQueued
  /\ disturbances < MaxSkips
  /\ currentTime - d >= 0
  /\ currentTime - d < duration
  /\ disturbances' = disturbances + 1
  /\ currentTime' = currentTime - d
  /\ last' = Obs("disturb", "none", 0, FALSE, FALSE, FALSE, playbackRate)
  /\ UNCHANGED <<variant, now, duration, paused, hidden, pc, dur, visListener,
                 cleanups, endedQueued, stopped, pendingTimer, timeouts,
                 endedListener, suspended, fn>>
  /\ UNCHANGED hybridVars
  /\ UNCHANGED hostVars
  /\ UNCHANGED gain
  /\ UNCHANGED tickSourceVars
  /\ rejected' = FALSE

\* ---------------------------------------------------------- specification

\* The controllers a run attaches.
Variants == {"hybrid", "boundary"}

NoObs == Obs("init", "none", 0, FALSE, FALSE, FALSE, RATE_ONE)

\* `fn` before any call of the pure-function harness.
NoCall == [op |-> "none", actual |-> 0, duration |-> 1, clock |-> 0, target |-> 0, drift |-> 0]

\* The page has loaded the video's metadata; nothing is attached yet.
Init ==
  /\ variant \in Variants
  /\ now \in StartTimes
  /\ duration \in Durations
  /\ currentTime = 0
  /\ playbackRate = RATE_ONE
  /\ paused = TRUE
  /\ hidden = FALSE
  /\ pc = "idle"
  /\ dur = NULL
  /\ ignoreThreshold = NULL
  /\ seekThreshold = NULL
  /\ timer = NULL
  /\ intervals = {}
  /\ visListener = FALSE
  /\ syncCleanup = FALSE
  /\ destroyed = "no"
  /\ cleanups = 0
  /\ disturbances = 0
  /\ stopped = FALSE
  /\ pendingTimer = NULL
  /\ timeouts = {}
  /\ endedListener = FALSE
  /\ endedQueued = FALSE
  /\ suspended = FALSE
  /\ last = NoObs
  /\ rejected = FALSE
  /\ gain = NULL
  /\ lastCheckTime = 0
  /\ rvfcPending = FALSE
  /\ corrections = {}
  /\ cycle = NoCycle
  /\ fn = NoCall

Next ==
  \/ \E o \in OptionSets : StartSync(o)
  \/ \E lat \in SeekLatencies, outcome \in PlayOutcomes : Seeked1(lat, outcome)
  \/ \E lat \in SeekLatencies, outcome \in PlayOutcomes : Seeked2(lat, outcome)
  \/ PlaySettled
  \/ \E t \in intervals : Tick(t)
  \/ \E outcome \in PlayOutcomes : VisibilityChange(outcome)
  \/ Cleanup
  \/ Destroy
  \/ \E dt \in ElapseSteps : Elapse(dt)
  \/ \E d \in DisturbSteps : Disturb(d)
  \/ \E d \in InvalidDurations : MediaReset(d)
  \/ StartSync_boundary
  \/ \E lat \in SeekLatencies, outcome \in PlayOutcomes : Seeked_boundary(lat, outcome)
  \/ PlaySettled_boundary
  \/ \E outcome \in PlayOutcomes : Ended(outcome)
  \/ \E t \in timeouts, outcome \in PlayOutcomes : TimeoutFire(t, outcome)
  \/ \E outcome \in PlayOutcomes : VisibilityChange_boundary(outcome)
  \/ Cleanup_boundary
  \/ Destroy_boundary
  \/ \E dt \in BoundarySteps : Elapse_boundary(dt)
  \/ \E d \in DisturbSteps : Disturb_boundary(d)

Spec == Init /\ [][Next]_vars

\* ------------------------------------------- computeDrift as a pure function

controllerVars ==
  <<variant, now, duration, currentTime, playbackRate, paused, hidden, pc, dur,
    ignoreThreshold, seekThreshold, timer, intervals, visListener, syncCleanup,
    destroyed, cleanups, disturbances, stopped, pendingTimer, timeouts,
    endedListener, endedQueued, suspended, last, rejected, cycle,
    gain, lastCheckTime, rvfcPending, corrections>>

\* No controller is attached; computeDrift is called on its own.
Init_computeDrift ==
  /\ variant = "pure"
  /\ now = 0
  /\ duration = 1
  /\ currentTime = 0
  /\ playbackRate = RATE_ONE
  /\ paused = TRUE
  /\ hidden = FALSE
  /\ pc = "idle"
  /\ dur = NULL
  /\ ignoreThreshold = NULL
  /\ seekThreshold = NULL
  /\ timer = NULL
  /\ intervals = {}
  /\ visListener = FALSE
  /\ syncCleanup = FALSE
  /\ destroyed = "no"
  /\ cleanups = 0
  /\ disturbances = 0
  /\ stopped = FALSE
  /\ pendingTimer = NULL
  /\ timeouts = {}
  /\ endedListener = FALSE
  /\ endedQueued = FALSE
  /\ suspended = FALSE
  /\ last = NoObs
  /\ rejected = FALSE
  /\ gain = NULL
  /\ lastCheckTime = 0
  /\ rvfcPending = FALSE
  /\ corrections = {}
  /\ cycle = NoCycle
  /\ fn = NoCall

\* computeDrift(actual, d) of sync.ts evaluated while Date.now() reads t.
Call_computeDrift(actual, d, t) ==
  /\ variant = "pure"
  /\ fn' = [op |-> "computeDrift", actual |-> actual, duration |-> d, clock |-> t,
            target |-> getTargetTime(d, t), drift |-> computeDrift(actual, d, t)]
  /\ UNCHANGED controllerVars

\* computeDrift(actual, d) of part_001 evaluated while Date.now() reads t.
Call_computeDrift_rvfc(actual, d, t) ==
  /\ variant = "pure"
  /\ fn' = [op |-> "computeDrift_rvfc", actual |-> actual, duration |-> d, clock |-> t,
            target |-> getTargetTime(d, t), drift |-> computeDrift_rvfc(actual, d, t)]
  /\ UNCHANGED controllerVars

\* Calls at the loop boundary, in microseconds: a 10 s video at position 9 s
\* when the target is 1 s, an 8 s video at position 7.9 s when the target is
\* 0.4 s, and the same two positions reached from the other side.
WrapExamples ==
  { [duration |-> 10000000, clock |-> 1000000, actual |-> 9000000],
    [duration |-> 8000000, clock |-> 8400000, actual |-> 7900000],
    [duration |-> 10000000, clock |-> 9000000, actual |-> 1000000],
    [duration |-> 8000000, clock |-> 7900000, actual |-> 400000] }

Next_computeDrift ==
  \/ \E d \in 1..MaxPureDuration, t \in 0..MaxPureClock :
       \E actual \in 0..d : Call_computeDrift(actual, d, t)
  \/ \E c \in WrapExamples : Call_computeDrift(c.actual, c.duration, c.clock)
  \/ \E d \in 1..MaxPureDuration, t \in 0..MaxPureClock :
       \E actual \in 0..d : Call_computeDrift_rvfc(actual, d, t)

SpecDrift == Init_computeDrift /\ [][Next_computeDrift]_vars

\* -------------------- the boundary controller on its own, with its scheduling

Init_boundary == Init /\ variant = "boundary"

Next_boundary ==
  \/ StartSync_boundary
  \/ \E lat \in SeekLatencies, outcome \in PlayOutcomes : Seeked_boundary(lat, outcome)
  \/ PlaySettled_boundary
  \/ \E outcome \in PlayOutcomes : Ended(outcome)
  \/ \E t \in timeouts, outcome \in PlayOutcomes : TimeoutFire(t, outcome)
  \/ \E outcome \in PlayOutcomes : VisibilityChange_boundary(outcome)
  \/ Cleanup_boundary
  \/ Destroy_boundary
  \/ \E dt \in BoundarySteps : Elapse_boundary(dt)
  \/ \E d \in DisturbSteps : Disturb_boundary(d)

\* What the event loop guarantees: a due timeout's callback runs, a queued
\* ended event is dispatched, and the clock keeps advancing.  Visibility
\* changes, teardown and disturbances may or may not happen.
Fairness_boundary ==
  /\ WF_vars(\E t \in timeouts, outcome \in PlayOutcomes : TimeoutFire(t, outcome))
  /\ WF_vars(\E outcome \in PlayOutcomes : Ended(outcome))
  /\ WF_vars(\E dt \in BoundarySteps : Elapse_boundary(dt))

SpecBoundaryLive == Init_boundary /\ [][Next_boundary]_vars /\ Fairness_boundary

\* ------------------------- tick sources of the engine (src/unnamed/part_001)

\* The tick source startSync selects: requestVideoFrameCallback where the
\* element has it, else setInterval.
TickSources == {"rvfc", "interval"}

\* Time from one presented frame whose callback is observed to the next.
FrameSteps == {500000, CHECK_INTERVAL_MS - FRAME_MS, CHECK_INTERVAL_MS}

\* The parts of the state part_001 does not use.
rvfcIdle == <<hidden, dur, timer, visListener, disturbances, suspended, cycle, fn,
              pendingTimer, timeouts, endedListener, endedQueued, gain>>

\* correct() of part_001: nothing for an invalid duration or a paused
\* element, else the three bands on the live video.duration.
correct_rvfc(ct, rate, p, d, t) ==
  IF d \in InvalidDurations \/ p
  THEN [currentTime |-> ct, playbackRate |-> rate,
        obs |-> Obs("tick", "paused", 0, FALSE, FALSE, FALSE, rate)]
  ELSE
    LET drift == computeDrift_rvfc(ct, d, t)
        absDrift == Abs(drift)
        nr == newRate(drift, seekThreshold)
        w == Abs(rate - nr) > RATE_EPS
    IN  IF absDrift < ignoreThreshold
        THEN [currentTime |-> ct, playbackRate |-> RATE_ONE,
              obs |-> Obs("tick", "negligible", drift, FALSE, rate # RATE_ONE, FALSE, rate)]
        ELSE IF absDrift >= seekThreshold
        THEN [currentTime |-> getTargetTime(d, t), playbackRate |-> RATE_ONE,
              obs |-> Obs("tick", "hard", drift, TRUE, TRUE, FALSE, rate)]
        ELSE [currentTime |-> ct, playbackRate |-> IF w THEN nr ELSE rate,
              obs |-> Obs("tick", "gradual", drift, FALSE, w, FALSE, rate)]

\* Mutant: a frame callback that runs correct() on every frame.
dueForCheck_everyFrame(t, lct) == TRUE

\* rvfcLoop's throttle: `now - lastCheckTime >= CHECK_INTERVAL_MS`.
dueForCheck(t, lct) == t - lct >= CHECK_INTERVAL_MS

\* The two cleanup() closures of part_001: the fallback sets stopped and
\* clears its interval; the frame-callback one sets stopped and resets the
\* rate.
cleanup_rvfc(src, ivs, rate) ==
  [stopped |-> TRUE,
   intervals |-> IF src = "interval" THEN {} ELSE ivs,
   playbackRate |-> IF src = "rvfc" THEN RATE_ONE ELSE rate,
   wroteRate |-> src = "rvfc" /\ rate # RATE_ONE]

\* startSync of part_001 up to its first await.
StartSync_rvfc(o) ==
  /\ variant \in TickSources
  /\ pc = "idle"
  /\ ignoreThreshold' = IF o.driftIgnore = NULL THEN DRIFT_IGNORE ELSE o.driftIgnore
  /\ seekThreshold' = IF o.driftSeek = NULL THEN DRIFT_SEEK ELSE o.driftSeek
  /\ currentTime' = getTargetTime(duration, now)
  /\ pc' = "seek1"
  /\ last' = Obs("seekToTarget", "none", 0, TRUE, FALSE, FALSE, playbackRate)
  /\ UNCHANGED <<variant, now, duration, playbackRate, paused, intervals, cleanups,
                 stopped>>
  /\ UNCHANGED rvfcIdle
  /\ UNCHANGED hostVars
  /\ UNCHANGED tickSourceVars
  /\ rejected' = FALSE

\* A seeked event, lat after the seek: after the first seek a drift of at
\* least ignoreThreshold seeks again; otherwise startSync calls play().
Seeked_rvfc(lat, outcome) ==
  /\ variant \in TickSources
  /\ pc \in {"seek1", "seek2"}
  /\ now + lat <= MaxNow
  /\ now' = now + lat
  /\ IF pc = "seek1"
        /\ Abs(computeDrift_rvfc(currentTime, duration, now')) >= ignoreThreshold
     THEN /\ currentTime' = getTargetTime(duration, now')
          /\ pc' = "seek2"
          /\ UNCHANGED paused
          /\ last' = Obs("seekToTarget", "none", 0, TRUE, FALSE, FALSE, playbackRate)
          /\ rejected' = FALSE
     ELSE /\ paused' = afterPlay(paused, outcome)
          /\ pc' = "play"
          /\ UNCHANGED currentTime
          /\ last' = Obs("play", "none", 0, FALSE, FALSE, TRUE, playbackRate)
          /\ rejected' = playRejected(paused, outcome)
  /\ UNCHANGED <<variant, duration, playbackRate, intervals, cleanups, stopped,
                 ignoreThreshold, seekThreshold>>
  /\ UNCHANGED rvfcIdle
  /\ UNCHANGED hostVars
  /\ UNCHANGED tickSourceVars

\* The play() promise settles: startSync registers its first frame callback
\* (lastCheckTime = 0) or arms the interval, and returns the handle.
PlaySettled_rvfc ==
  /\ variant \in TickSources
  /\ pc = "play"
  /\ pc' = "done"
  /\ IF variant = "rvfc"
     THEN /\ rvfcPending' = TRUE
          /\ lastCheckTime' = 0
          /\ UNCHANGED intervals
     ELSE /\ intervals' = {[id |-> FreshId(intervals), due |-> now + CHECK_INTERVAL_MS]}
          /\ UNCHANGED <<rvfcPending, lastCheckTime>>
  /\ last' = Obs("attached", "none", 0, FALSE, FALSE, FALSE, playbackRate)
  /\ UNCHANGED <<variant, now, duration, currentTime, playbackRate, paused, cleanups,
                 stopped, ignoreThreshold, seekThreshold, corrections>>
  /\ UNCHANGED rvfcIdle
  /\ UNCHANGED hostVars
  /\ rejected' = FALSE

\* The playing element presents a frame dt after the last event and the
\* registered callback rvfcLoop runs: nothing once stopped; else correct()
\* if the throttle allows, and the callback registers itself again.
Frame(dt) ==
  /\ variant = "rvfc"
  /\ pc = "done"
  /\ rvfcPending
  /\ ~paused
  /\ now + dt <= MaxNow
  /\ now' = now + dt
  /\ LET ct == (currentTime + Advance(dt, playbackRate)) % duration
     IN  IF stopped
         THEN /\ rvfcPending' = FALSE
              /\ currentTime' = ct
              /\ UNCHANGED <<playbackRate, lastCheckTime, corrections>>
              /\ last' = Obs("frame", "none", 0, FALSE, FALSE, FALSE, playbackRate)
         ELSE /\ rvfcPending' = TRUE
              /\ IF dueForCheck(now', lastCheckTime)
                 THEN LET c == correct_rvfc(ct, playbackRate, paused, duration, now')
                      IN  /\ currentTime' = c.currentTime
                          /\ playbackRate' = c.playbackRate
                          /\ last' = c.obs
                          /\ lastCheckTime' = now'
                          /\ corrections' = corrections \cup {now'}
                 ELSE /\ currentTime' = ct
                      /\ UNCHANGED <<playbackRate, lastCheckTime, corrections>>
                      /\ last' = Obs("frame", "none", 0, FALSE, FALSE, FALSE, playbackRate)
  /\ UNCHANGED <<variant, duration, paused, pc, intervals, cleanups, stopped,
                 ignoreThreshold, seekThreshold>>
  /\ UNCHANGED rvfcIdle
  /\ UNCHANGED hostVars
  /\ rejected' = FALSE

\* The fallback's interval fires: correct() runs.
Tick_rvfc(t) ==
  /\ variant = "interval"
  /\ t \in intervals
  /\ t.due <= now
  /\ LET c == correct_rvfc(currentTime, playbackRate, paused, duration, now)
     IN  /\ currentTime' = c.currentTime
         /\ playbackRate' = c.playbackRate
         /\ last' = c.obs
  /\ intervals' = (intervals \ {t}) \cup {[id |-> t.id, due |-> t.due + CHECK_INTERVAL_MS]}
  /\ corrections' = corrections \cup {now}
  /\ UNCHANGED <<variant, now, duration, paused, pc, cleanups, stopped,
                 ignoreThreshold, seekThreshold, lastCheckTime, rvfcPending>>
  /\ UNCHANGED rvfcIdle
  /\ UNCHANGED hostVars
  /\ rejected' = FALSE

\* The clock advances by dt with the fallback source attached, up to the
\* next firing of its interval; a playing element advances, looping.
Elapse_rvfc(dt) ==
  /\ variant = "interval"
  /\ pc = "done"
  /\ now + dt <= MaxNow
  /\ \A t \in intervals : now + dt <= t.due
  /\ now' = now + dt
  /\ currentTime' = IF paused THEN currentTime
                    ELSE (currentTime + Advance(dt, playbackRate)) % duration
  /\ last' = Obs("elapse", "none", 0, FALSE, FALSE, FALSE, playbackRate)
  /\ UNCHANGED <<variant, duration, playbackRate, paused, pc, intervals, cleanups,
                 stopped, ignoreThreshold, seekThreshold>>
  /\ UNCHANGED rvfcIdle
  /\ UNCHANGED hostVars
  /\ UNCHANGED tickSourceVars
  /\ rejected' = FALSE

\* A holder of the handle startSync returned calls cleanup().
Cleanup_rvfc ==
  /\ variant \in TickSources
  /\ pc = "done"
  /\ cleanups < MaxCleanups
  /\ LET c == cleanup_rvfc(variant, intervals, playbackRate)
     IN  /\ stopped' = c.stopped
         /\ intervals' = c.intervals
         /\ playbackRate' = c.playbackRate
         /\ last' = Obs("cleanup", "none", 0, FALSE, c.wroteRate, FALSE, playbackRate)
  /\ cleanups' = cleanups + 1
  /\ UNCHANGED <<variant, now, duration, currentTime, paused, pc, ignoreThreshold,
                 seekThreshold>>
  /\ UNCHANGED rvfcIdle
  /\ UNCHANGED hostVars
  /\ UNCHANGED tickSourceVars
  /\ rejected' = FALSE

Init_rvfc ==
  /\ variant \in TickSources
  /\ now \in StartTimes
  /\ duration \in Durations
  /\ currentTime = 0
  /\ playbackRate = RATE_ONE
  /\ paused = TRUE
  /\ hidden = FALSE
  /\ pc = "idle"
  /\ dur = NULL
  /\ ignoreThreshold = NULL
  /\ seekThreshold = NULL
  /\ timer = NULL
  /\ intervals = {}
  /\ visListener = FALSE
  /\ syncCleanup = FALSE
  /\ destroyed = "no"
  /\ cleanups = 0
  /\ disturbances = 0
  /\ stopped = FALSE
  /\ pendingTimer = NULL
  /\ timeouts = {}
  /\ endedListener = FALSE
  /\ endedQueued = FALSE
  /\ suspended = FALSE
  /\ last = NoObs
  /\ rejected = FALSE
  /\ gain = NULL
  /\ lastCheckTime = 0
  /\ rvfcPending = FALSE
  /\ corrections = {}
  /\ cycle = NoCycle
  /\ fn = NoCall

Next_rvfc ==
  \/ \E o \in OptionSets : StartSync_rvfc(o)
  \/ \E lat \in SeekLatencies, outcome \in PlayOutcomes : Seeked_rvfc(lat, outcome)
  \/ PlaySettled_rvfc
  \/ \E dt \in FrameSteps : Frame(dt)
  \/ \E t \in intervals : Tick_rvfc(t)
  \/ \E dt \in ElapseSteps : Elapse_rvfc(dt)
  \/ Cleanup_rvfc

SpecTickSource == Init_rvfc /\ [][Next_rvfc]_vars

\* ----------------- pure-proportional controller (src/unnamed/part_002)

\* opts passed to startSync of part_002: [] is the empty options object.
OptionSets_prop ==
  { [driftIgnore |-> NULL, gain |-> NULL],
    [driftIgnore |-> 1000, gain |-> NULL],
    [driftIgnore |-> NULL, gain |-> 60] }
\* Time a seek takes in the runs of part_002.
SeekLatencies_prop == {0, 2000, 50000}
\* Position disturbances: > 0 the element falls behind, < 0 it runs ahead.
DisturbSteps_prop == {300000, -60000, 1500000}

\* The parts of the state part_002 does not use.
propIdle == <<seekThreshold, stopped, pendingTimer, timeouts, endedListener,
              endedQueued, suspended, fn>>

\* rawRate = 1 + drift * gain, for a gain g in units of 0.01.
rawRate(drift, g) ==
  IF drift >= 0 THEN RATE_ONE + (drift * g) \div 1000
  ELSE RATE_ONE - ((-drift) * g) \div 1000

\* Mutant: the rate is nudged away from the target.
newRate_prop_inverted(drift, g) ==
  LET r == rawRate(-drift, g)
  IN  IF r > RATE_MAX_prop THEN RATE_MAX_prop
      ELSE IF r < RATE_MIN_prop THEN RATE_MIN_prop ELSE r

\* newRate of part_002: rawRate clamped to [RATE_MIN, RATE_MAX].
newRate_prop(drift, g) ==
  LET r == rawRate(drift, g)
  IN  IF r > RATE_MAX_prop THEN RATE_MAX_prop
      ELSE IF r < RATE_MIN_prop THEN RATE_MIN_prop ELSE r

\* correct() of part_002: nothing for a paused element; rate reset in the
\* negligible band; else the proportional rate, written only when it
\* differs from the current one by more than 0.001.  No seek.
correct_prop(ct, rate, p, t) ==
  IF p
  THEN onPaused(ct, rate)
  ELSE
    LET drift == computeDrift(ct, dur, t)
        absDrift == IF drift > 0 THEN drift ELSE -drift
        nr == newRate_prop(drift, gain)
        w == rateChanged(rate, nr)
    IN  IF absDrift < ignoreThreshold
        THEN [currentTime |-> ct, playbackRate |-> RATE_ONE,
              obs |-> Obs("tick", "negligible", drift, FALSE, rate # RATE_ONE, FALSE, rate)]
        ELSE [currentTime |-> ct, playbackRate |-> IF w THEN nr ELSE rate,
              obs |-> Obs("tick", "proportional", drift, FALSE, w, FALSE, rate)]

\* startSync of part_002 up to its first await.
StartSync_prop(o) ==
  /\ variant = "proportional"
  /\ pc = "idle"
  /\ ignoreThreshold' = IF o.driftIgnore = NULL THEN DRIFT_IGNORE ELSE o.driftIgnore
  /\ gain' = IF o.gain = NULL THEN GAIN ELSE o.gain
  /\ dur' = duration
  /\ currentTime' = now % duration
  /\ pc' = "seek1"
  /\ last' = Obs("seekToTarget", "none", 0, TRUE, FALSE, FALSE, playbackRate)
  /\ UNCHANGED <<variant, now, duration, playbackRate, paused, hidden, timer,
                 intervals, visListener, cleanups, disturbances, cycle>>
  /\ UNCHANGED propIdle
  /\ UNCHANGED hostVars
  /\ UNCHANGED tickSourceVars
  /\ rejected' = FALSE

\* A seeked event, lat after the seek: after the first seek a drift of at
\* least ignoreThreshold seeks again; otherwise startSync calls play().
Seeked_prop(lat, outcome) ==
  /\ variant = "proportional"
  /\ pc \in {"seek1", "seek2"}
  /\ now + lat <= MaxNow
  /\ now' = now + lat
  /\ IF pc = "seek1" /\ needsSecondSeek(currentTime, dur, now', ignoreThreshold)
     THEN /\ currentTime' = now' % dur
          /\ pc' = "seek2"
          /\ UNCHANGED paused
          /\ last' = Obs("seekToTarget", "none", 0, TRUE, FALSE, FALSE, playbackRate)
          /\ rejected' = FALSE
     ELSE /\ paused' = afterPlay(paused, outcome)
          /\ pc' = "play"
          /\ UNCHANGED currentTime
          /\ last' = Obs("play", "none", 0, FALSE, FALSE, TRUE, playbackRate)
          /\ rejected' = playRejected(paused, outcome)
  /\ UNCHANGED <<variant, duration, playbackRate, hidden, timer, intervals,
                 visListener, cleanups, disturbances, cycle, dur, ignoreThreshold,
                 gain>>
  /\ UNCHANGED propIdle
  /\ UNCHANGED hostVars
  /\ UNCHANGED tickSourceVars

\* The play() promise settles: startSync registers the visibilitychange
\* listener, starts the timer and returns the handle.
PlaySettled_prop ==
  /\ variant = "proportional"
  /\ pc = "play"
  /\ pc' = "done"
  /\ visListener' = TRUE
  /\ LET s == startTimer(timer, intervals)
     IN  /\ timer' = s.timer
         /\ intervals' = s.intervals
  /\ last' = Obs("attached", "none", 0, FALSE, FALSE, FALSE, playbackRate)
  /\ UNCHANGED <<variant, now, duration, currentTime, playbackRate, paused, hidden,
                 cleanups, disturbances, cycle, dur, ignoreThreshold, gain>>
  /\ UNCHANGED propIdle
  /\ UNCHANGED hostVars
  /\ UNCHANGED tickSourceVars
  /\ rejected' = FALSE

\* The interval fires: correct() runs.
Tick_prop(t) ==
  /\ variant = "proportional"
  /\ t \in intervals
  /\ t.due <= now
  /\ LET c == correct_prop(currentTime, playbackRate, paused, now)
     IN  /\ currentTime' = c.currentTime
         /\ playbackRate' = c.playbackRate
         /\ last' = c.obs
  /\ intervals' = (intervals \ {t}) \cup {[id |-> t.id, due |-> t.due + CHECK_INTERVAL_MS]}
  /\ cycle' = nextCycle(cycle, last')
  /\ UNCHANGED <<variant, now, duration, paused, hidden, pc, timer, visListener,
                 cleanups, disturbances, dur, ignoreThreshold, gain>>
  /\ UNCHANGED propIdle
  /\ UNCHANGED hostVars
  /\ UNCHANGED tickSourceVars
  /\ rejected' = FALSE

\* The document's visibility changes; with the listener registered,
\* onVisibilityChange runs: stopTimer() when hidden, else re-seek, play()
\* if paused, startTimer().
VisibilityChange_prop(outcome) ==
  /\ variant = "proportional"
  /\ hidden' = ~hidden
  /\ IF ~visListener
     THEN /\ UNCHANGED <<currentTime, paused, timer, intervals>>
          /\ last' = Obs("unobserved", "none", 0, FALSE, FALSE, FALSE, playbackRate)
     ELSE IF hidden'
     THEN /\ LET s == stopTimer(timer, intervals)
             IN  /\ timer' = s.timer
                 /\ intervals' = s.intervals
          /\ UNCHANGED <<currentTime, paused>>
          /\ last' = Obs("hidden", "none", 0, FALSE, FALSE, FALSE, playbackRate)
     ELSE /\ currentTime' = now % dur
          /\ paused' = IF paused THEN afterPlay(paused, outcome) ELSE paused
          /\ LET s == startTimer(timer, intervals)
             IN  /\ timer' = s.timer
                 /\ intervals' = s.intervals
          /\ last' = Obs("visible", "none", 0, TRUE, FALSE, paused, playbackRate)
  /\ cycle' = IF visListener THEN NoCycle ELSE cycle
  /\ UNCHANGED <<variant, now, duration, playbackRate, pc, visListener, cleanups,
                 disturbances, dur, ignoreThreshold, gain>>
  /\ UNCHANGED propIdle
  /\ UNCHANGED hostVars
  /\ UNCHANGED tickSourceVars
  /\ rejected' = (visListener /\ ~hidden' /\ playRejected(paused, outcome))

\* A holder of the handle startSync returned calls cleanup().
Cleanup_prop ==
  /\ variant = "proportional"
  /\ pc = "done"
  /\ cleanups < MaxCleanups
  /\ LET c == cleanup(timer, intervals, playbackRate)
     IN  /\ timer' = c.timer
         /\ intervals' = c.intervals
         /\ visListener' = c.visListener
         /\ playbackRate' = c.playbackRate
         /\ last' = Obs("cleanup", "none", 0, FALSE, c.wroteRate, FALSE, playbackRate)
  /\ cleanups' = cleanups + 1
  /\ cycle' = NoCycle
  /\ UNCHANGED <<variant, now, duration, currentTime, paused, hidden, pc,
                 disturbances, dur, ignoreThreshold, gain>>
  /\ UNCHANGED propIdle
  /\ UNCHANGED hostVars
  /\ UNCHANGED tickSourceVars
  /\ rejected' = FALSE

\* The clock advances by dt, up to the next firing of the interval; a
\* playing element advances at its rate, looping.
Elapse_prop(dt) ==
  /\ variant = "proportional"
  /\ pc = "done"
  /\ now + dt <= MaxNow
  /\ \A t \in intervals : now + dt <= t.due
  /\ now' = now + dt
  /\ currentTime' = IF paused THEN currentTime
                    ELSE (currentTime + Advance(dt, playbackRate)) % duration
  /\ last' = Obs("elapse", "none", 0, FALSE, FALSE, FALSE, playbackRate)
  /\ UNCHANGED <<variant, duration, playbackRate, paused, hidden, pc, timer,
                 intervals, visListener, cleanups, disturbances, cycle, dur,
                 ignoreThreshold, gain>>
  /\ UNCHANGED propIdle
  /\ UNCHANGED hostVars
  /\ UNCHANGED tickSourceVars
  /\ rejected' = FALSE

\* The playing element's position jumps by d (a decode stall, a skipped
\* stretch): not a write of the controller.
Disturb_prop(d) ==
  /\ variant = "proportional"
  /\ pc = "done"
  /\ visListener
  /\ ~paused
  /\ disturbances < MaxDisturb
  /\ disturbances' = disturbances + 1
  /\ currentTime' = (currentTime - d) % duration
  /\ last' = Obs("disturb", "none", 0, FALSE, FALSE, FALSE, playbackRate)
  /\ cycle' = NoCycle
  /\ UNCHANGED <<variant, now, duration, playbackRate, paused, hidden, pc, timer,
                 intervals, visListener, cleanups, dur, ignoreThreshold, gain>>
  /\ UNCHANGED propIdle
  /\ UNCHANGED hostVars
  /\ UNCHANGED tickSourceVars
  /\ rejected' = FALSE

Init_prop ==
  /\ variant = "proportional"
  /\ now \in StartTimes
  /\ duration \in Durations
  /\ currentTime = 0
  /\ playbackRate = RATE_ONE
  /\ paused = TRUE
  /\ hidden = FALSE
  /\ pc = "idle"
  /\ dur = NULL
  /\ ignoreThreshold = NULL
  /\ seekThreshold = NULL
  /\ timer = NULL
  /\ intervals = {}
  /\ visListener = FALSE
  /\ syncCleanup = FALSE
  /\ destroyed = "no"
  /\ cleanups = 0
  /\ disturbances = 0
  /\ stopped = FALSE
  /\ pendingTimer = NULL
  /\ timeouts = {}
  /\ endedListener = FALSE
  /\ endedQueued = FALSE
  /\ suspended = FALSE
  /\ last = NoObs
  /\ rejected = FALSE
  /\ gain = NULL
  /\ lastCheckTime = 0
  /\ rvfcPending = FALSE
  /\ corrections = {}
  /\ cycle = NoCycle
  /\ fn = NoCall

Next_prop ==
  \/ \E o \in OptionSets_prop : StartSync_prop(o)
  \/ \E lat \in SeekLatencies_prop, outcome \in PlayOutcomes : Seeked_prop(lat, outcome)
  \/ PlaySettled_prop
  \/ \E t \in intervals : Tick_prop(t)
  \/ \E outcome \in PlayOutcomes : VisibilityChange_prop(outcome)
  \/ Cleanup_prop
  \/ \E dt \in ElapseSteps : Elapse_prop(dt)
  \/ \E d \in DisturbSteps_prop : Disturb_prop(d)

SpecProportional == Init_prop /\ [][Next_prop]_vars

\* ------------------------------------------------------------------ claims

\* The step just taken was a correction cycle of the hybrid controller.
TickStep == variant = "hybrid" /\ last'.op = "tick"

\* The drift a correction cycle run in the current state computes.
DriftNow == computeDrift(currentTime, dur, now)

\* C1.  Suspension safety: from the step that handles the document-hidden
\* transition to the step that handles the document-visible one, no timer
\* firing, ended event or visibility event makes the controller write
\* currentTime or playbackRate: no correction cycle runs and no scheduled
\* resumption acts.
C1_SuspensionSafety ==
  [][(suspended /\ suspended' /\ last'.op # "cleanup")
       => /\ ~last'.wroteTime
          /\ ~last'.wroteRate
          /\ last'.op # "tick"
          /\ (last'.op = "timeout") => stopped]_vars

\* C2.  Teardown postcondition: in the state cleanup() of the hybrid
\* controller leaves, no interval timer is armed, the visibilitychange
\* subscription is detached and playbackRate is 1.
C2_TeardownPostcondition ==
  (variant = "hybrid" /\ last.op = "cleanup")
    => /\ timer = NULL
       /\ intervals = {}
       /\ ~visListener
       /\ playbackRate = RATE_ONE

\* C2 witness: cleanup() has just run from steady state (document visible,
\* timer armed) and found a rate other than 1.
C2_Witness ==
  /\ variant = "hybrid"
  /\ last.op = "cleanup"
  /\ last.wroteRate
  /\ cleanups = 1
  /\ ~hidden

\* C3.  Teardown idempotence: a cleanup() call that directly follows another
\* one changes nothing, and the state the two calls leave has no timer armed,
\* no subscription and rate 1.
C3_TeardownIdempotence ==
  [][(last.op = "cleanup" /\ last'.op = "cleanup" /\ cleanups' = cleanups + 1)
       => /\ UNCHANGED <<timer, intervals, visListener, playbackRate, currentTime,
                         paused, stopped, pendingTimer, timeouts, endedListener>>
          /\ intervals' = {}
          /\ timeouts' = {}
          /\ ~visListener'
          /\ ~endedListener'
          /\ playbackRate' = RATE_ONE]_vars

\* C4.  Teardown before initial sync completes: when the host was destroyed
\* while startSync was awaiting its seek or play, then once startSync has
\* finished no correction timer is armed and no visibilitychange subscription
\* is registered.
C4_TeardownBeforeInitialSync ==
  (variant = "hybrid" /\ destroyed \in {"seek1", "seek2", "play"} /\ pc = "done")
    => /\ timer = NULL
       /\ intervals = {}
       /\ ~visListener

C6_DeadbandIdempotence ==
  [][(TickStep /\ ~paused /\ Abs(DriftNow) < ignoreThreshold)
       => /\ currentTime' = currentTime
          /\ playbackRate' = RATE_ONE
          /\ ~last'.wroteTime
          /\ last'.wroteRate <=> (playbackRate # RATE_ONE)]_vars

\* C6 witness: a negligible-band cycle has just reset a rate that was not 1.
C6_Witness ==
  /\ variant = "hybrid"
  /\ last.op = "tick"
  /\ last.band = "negligible"
  /\ last.rate0 # RATE_ONE
  /\ playbackRate = RATE_ONE

\* The rate the claim names for the gradual band: 1 + (|drift|/driftSeek)*0.03
\* behind the target, 1 - (|drift|/driftSeek)*0.03 ahead of it.
C7_Rate(drift, seek) ==
  IF drift > 0 THEN RATE_ONE + (drift * 3000) \div seek
  ELSE RATE_ONE - ((-drift) * 3000) \div seek

\* C7.  Gradual band: a correction cycle on a playing element with
\* ignoreThreshold <= |drift| < seekThreshold chooses the rate
\* 1 +/- (|drift|/seekThreshold)*0.03 (speeding up behind the target, slowing
\* down ahead of it), which lies in [0.97, 1.03], assigns it when it differs
\* from the current rate by more than the deadband, and does not write
\* currentTime.
C7_GradualBand ==
  [][(TickStep /\ ~paused /\ Abs(DriftNow) >= ignoreThreshold
        /\ Abs(DriftNow) < seekThreshold)
       => LET chosen == C7_Rate(DriftNow, seekThreshold)
          IN  /\ chosen >= RATE_MIN /\ chosen <= RATE_MAX
              /\ currentTime' = currentTime
              /\ ~last'.wroteTime
              /\ IF Abs(playbackRate - chosen) > RATE_EPS
                 THEN playbackRate' = chosen
                 ELSE playbackRate' = playbackRate]_vars

\* C7 witness: a gradual-band cycle has just slowed the element down because
\* it was ahead of the target.
C7_Witness ==
  /\ variant = "hybrid"
  /\ last.op = "tick"
  /\ last.band = "gradual"
  /\ last.drift < 0
  /\ last.wroteRate
  /\ playbackRate < RATE_ONE

\* C8.  Hard band: a correction cycle on a playing element with
\* |drift| >= seekThreshold sets playbackRate to 1 and currentTime to the
\* wall-clock target of that instant, whatever the rate was.
C8_HardBand ==
  [][(TickStep /\ ~paused /\ Abs(DriftNow) >= seekThreshold)
       => /\ playbackRate' = RATE_ONE
          /\ currentTime' = now % dur
          /\ last'.wroteTime /\ last'.wroteRate]_vars

\* C8 witness: a cycle has just hard-seeked an element whose rate was not 1.
C8_Witness ==
  /\ variant = "hybrid"
  /\ last.op = "tick"
  /\ last.band = "hard"
  /\ last.rate0 # RATE_ONE
  /\ playbackRate = RATE_ONE
  /\ currentTime = now % dur

\* The controller runs with the default thresholds (no options given).
DefaultThresholds == ignoreThreshold = DRIFT_IGNORE /\ seekThreshold = DRIFT_SEEK

\* Two correction cycles in a row, CHECK_INTERVAL_MS apart, with nothing but
\* the element's own advance in between, the first of them in the gradual band.
AfterGradualCycle ==
  /\ variant = "hybrid"
  /\ last.op = "tick"
  /\ cycle.prevBand = "gradual"

\* C9.  Monotonic convergence: with nothing but the element's own advance
\* between them, the correction cycle after a gradual-band cycle observes a
\* strictly smaller |drift|, and resets the rate to 1 when that drift is
\* below ignoreThreshold; for whatever thresholds the controller was given.
C9_MonotonicConvergence ==
  AfterGradualCycle
    => /\ Abs(cycle.drift) < Abs(cycle.prevDrift)
       /\ (Abs(cycle.drift) < ignoreThreshold) => playbackRate = RATE_ONE

\* Monotonic convergence restricted to the default thresholds (driftIgnore
\* 0.05 s, driftSeek 0.3 s), where the nudge of one cycle is at most 0.2 of
\* the drift it acts on and never below the write deadband.
ConvergenceAtDefaults ==
  (AfterGradualCycle /\ DefaultThresholds)
    => /\ Abs(cycle.drift) < Abs(cycle.prevDrift)
       /\ (Abs(cycle.drift) < ignoreThreshold) => playbackRate = RATE_ONE

\* Under the default thresholds a gradual-band cycle has been followed by a
\* cycle that found the drift negligible and reset the rate.
ConvergenceAtDefaults_Reached ==
  /\ AfterGradualCycle
  /\ DefaultThresholds
  /\ cycle.band = "negligible"
  /\ Abs(cycle.drift) < Abs(cycle.prevDrift)
  /\ last.rate0 # RATE_ONE
  /\ playbackRate = RATE_ONE

\* C10.  For every position 0..duration of the element, every duration > 0
\* and every clock value, the drift computeDrift returns (in sync.ts and in
\* part_001) satisfies |drift| <= duration/2, and actual + drift is congruent
\* to the wall-clock target modulo duration.
C10_DriftBoundAndCongruence ==
  (fn.op # "none")
    => /\ 2 * Abs(fn.drift) <= fn.duration
       /\ (fn.actual + fn.drift - fn.target) % fn.duration = 0

\* C10 witness: a call whose raw difference exceeded half the duration, so
\* the returned drift crosses the loop boundary.
C10_Witness ==
  /\ fn.op = "computeDrift"
  /\ 2 * (fn.target - fn.actual) > fn.duration
  /\ fn.drift = fn.target - fn.actual - fn.duration

\* The raw difference target - actual of the call under evaluation.
RawDifference == fn.target - fn.actual

\* C11 as stated: computeDrift of sync.ts wraps into the half-open interval
\* (-duration/2, duration/2]: the result is never exactly -duration/2, and a
\* raw difference of exactly -duration/2 is reported as +duration/2.
C11_HalfOpenWrap ==
  (fn.op = "computeDrift")
    => /\ 2 * fn.drift # -fn.duration
       /\ (2 * RawDifference = -fn.duration) => 2 * fn.drift = fn.duration

\* C11 (amended).  computeDrift of sync.ts wraps into the closed interval
\* [-duration/2, duration/2]: only a raw difference whose magnitude exceeds
\* half the duration is wrapped, so a raw difference of exactly -duration/2
\* or exactly +duration/2 is returned as it is.
C11_ClosedWrap ==
  (fn.op = "computeDrift")
    => /\ -fn.duration <= 2 * fn.drift
       /\ 2 * fn.drift <= fn.duration
       /\ (2 * Abs(RawDifference) = fn.duration) => fn.drift = RawDifference
       /\ (2 * Abs(RawDifference) > fn.duration) => fn.drift # RawDifference

\* C11 witness: a call whose raw difference is exactly -duration/2 has
\* returned -duration/2.
C11_Witness ==
  /\ fn.op = "computeDrift"
  /\ 2 * RawDifference = -fn.duration
  /\ 2 * fn.drift = -fn.duration

\* C12.  Wrap at the loop boundary takes the shorter path: computeDrift of
\* sync.ts returns +2 s for duration 10 s, target 1 s, actual 9 s, and +0.5 s
\* for duration 8 s, target 0.4 s, actual 7.9 s; in general a raw difference
\* below -duration/2 is returned as raw + duration and one above
\* +duration/2 as raw - duration.
C12_WrapShorterPath ==
  (fn.op = "computeDrift")
    => /\ (fn.duration = 10000000 /\ fn.target = 1000000 /\ fn.actual = 9000000)
            => fn.drift = 2000000
       /\ (fn.duration = 8000000 /\ fn.target = 400000 /\ fn.actual = 7900000)
            => fn.drift = 500000
       /\ (2 * RawDifference < -fn.duration) => fn.drift = RawDifference + fn.duration
       /\ (2 * RawDifference > fn.duration) => fn.drift = RawDifference - fn.duration

\* C12 witness: the call for the 8 s video at 7.9 s with target 0.4 s has
\* returned +0.5 s, its raw difference being -7.5 s.
C12_Witness ==
  /\ fn.op = "computeDrift"
  /\ fn.duration = 8000000
  /\ fn.actual = 7900000
  /\ RawDifference = -7500000
  /\ fn.drift = 500000

\* The step that led here wrote a wall-clock target into currentTime: the
\* initial seek, a hard seek of a correction cycle, or the visible-resume.
WroteTarget ==
  /\ last.wroteTime
  /\ last.op \in {"seekToTarget", "tick", "visible"}

\* C13.  For every duration > 0 and every non-negative clock value,
\* getTargetTime is congruent to the clock value modulo the duration and lies
\* in [0, duration); and every position written by an initial seek, a hard seek
\* or a visible-resume is that target and lies in [0, duration).  (The
\* first conjunct does not depend on the state, so it is evaluated only in
\* the states before startSync is called.)
C13_TargetInRange ==
  /\ (pc = "idle")
       => \A d \in 1..MaxPureDuration, t \in 0..MaxPureClock :
            /\ getTargetTime(d, t) >= 0
            /\ getTargetTime(d, t) < d
            /\ (t - getTargetTime(d, t)) % d = 0
  /\ WroteTarget
       => /\ currentTime >= 0
          /\ currentTime < dur
          /\ (now - currentTime) % dur = 0

\* C13 witness: a visible-resume of the hybrid controller after the clock
\* has passed one whole duration has written the reduced target.
C13_Witness ==
  /\ variant = "hybrid"
  /\ last.op = "visible"
  /\ last.wroteTime
  /\ now >= dur
  /\ currentTime = now - dur

\* The moves of startSync of the hybrid controller from one await to the next.
InitialSyncMoves ==
  { <<"idle", "seek1">>, <<"seek1", "seek2">>, <<"seek1", "play">>,
    <<"seek2", "play">>, <<"play", "done">> }

\* C14.  Initial-sync ordering of the hybrid controller: startSync first
\* seeks to the target and waits for seeked; it seeks a second time if and
\* only if |drift| >= ignoreThreshold when the first seek completes; it never
\* seeks more than twice; play() is requested only in the step that ends the
\* last seek; and no correction timer is armed before play() has settled.
C14_InitialSyncOrdering ==
  [][(variant = "hybrid")
       => /\ (pc' # pc) => <<pc, pc'>> \in InitialSyncMoves
          /\ (pc = "idle" /\ pc' = "seek1")
               => /\ currentTime' = now % duration
                  /\ last'.wroteTime /\ ~last'.played
          /\ (pc = "seek1" /\ pc' # pc)
               => /\ (pc' = "seek2") <=>
                       (Abs(computeDrift(currentTime, dur, now')) >= ignoreThreshold)
                  /\ (pc' = "seek2") => (currentTime' = now' % dur /\ ~last'.played)
          /\ (last'.wroteTime /\ pc' # "done")
               => (pc' # pc /\ pc' \in {"seek1", "seek2"})
          /\ (last'.played /\ pc' # "done")
               => (pc \in {"seek1", "seek2"} /\ pc' = "play" /\ ~last'.wroteTime)
          /\ (pc' # "done") => (timer' = NULL /\ intervals' = {})
          /\ (pc = "play" /\ pc' = "done") => (timer' # NULL /\ intervals' # {})]_vars

\* C14 witness: the first seek took as long as the ignore threshold, so
\* startSync has issued its second seek and is waiting for it.
C14_Witness ==
  /\ variant = "hybrid"
  /\ pc = "seek2"
  /\ last.op = "seekToTarget"
  /\ ignoreThreshold = DRIFT_IGNORE
  /\ currentTime = now % dur
  /\ timer = NULL

C16_InvalidDurationGuard ==
  [][(TickStep /\ duration \in InvalidDurations)
       => /\ ~last'.wroteTime
          /\ ~last'.wroteRate
          /\ UNCHANGED <<currentTime, playbackRate>>]_vars

\* C17.  Entering suspended: in the state the document-hidden handler of
\* either controller leaves, no correction timer and no scheduled resumption
\* is pending, and the media element is paused.
C17_EnteringSuspended ==
  (last.op = "hidden")
    => /\ timer = NULL
       /\ intervals = {}
       /\ pendingTimer = NULL
       /\ timeouts = {}
       /\ paused

\* The step just taken ran the hybrid controller's document-visible handler.
VisibleStep == variant = "hybrid" /\ last'.op = "visible"

\* C18.  Leaving suspended: a step in which the hybrid controller handles a
\* document-visible event sets currentTime to the wall-clock target of that
\* moment, requests play() exactly when the element is paused, and leaves
\* exactly one correction timer armed, the one the `timer` variable holds.
C18_LeavingSuspended ==
  [][VisibleStep
       => /\ last'.wroteTime
          /\ currentTime' = getTargetTime(dur, now')
          /\ last'.played = paused
          /\ (~paused => ~paused')
          /\ timer' # NULL
          /\ intervals' = {t \in intervals' : t.id = timer'}
          /\ Cardinality(intervals') = 1
          /\ ~suspended']_vars

\* C18 witness: the visible handler has run, found the element paused,
\* requested play() and re-sought to a target other than 0; one timer is armed.
C18_Witness ==
  /\ variant = "hybrid"
  /\ last.op = "visible"
  /\ last.played
  /\ ~paused
  /\ timer # NULL
  /\ Cardinality(intervals) = 1
  /\ currentTime # 0

\* How far the wall-clock target at clock t is from a loop boundary, the
\* shorter way round: min(elapsed, remaining) of scheduleNextLoop.
boundaryDistance(t) ==
  LET elapsed == t % dur
      remaining == dur - elapsed
  IN  IF elapsed <= remaining THEN elapsed ELSE remaining

\* The step just taken ran scheduleNextLoop() of a live boundary controller.
EndedStep == variant = "boundary" /\ last'.op = "ended" /\ ~stopped

\* C19.  Wait-for-boundary alignment: after an ended event the element is at
\* position 0; playback resumes at once only when the wall clock is within
\* one frame (16 ms) of a loop boundary, otherwise a timeout is set for
\* duration - elapsed; and every play() called from position 0 happens
\* while the wall-clock target is within one frame of 0.
C19_BoundaryAlignment ==
  [][/\ EndedStep
          => /\ currentTime' = 0
             /\ last'.played => boundaryDistance(now') <= FRAME_MS
             /\ ~last'.played
                  => /\ pendingTimer' # NULL
                     /\ \E t \in timeouts' :
                          /\ t.id = pendingTimer'
                          /\ t.due = now' + (dur - (now' % dur))
     /\ (variant = "boundary" /\ last'.played /\ currentTime' = 0
           /\ last'.op \in {"ended", "timeout"})
          => boundaryDistance(now') <= FRAME_MS]_vars

\* C20.  A correction cycle that finds the element paused is a no-op: it
\* writes neither playbackRate nor currentTime and calls neither play() nor
\* pause(); in the hybrid controller only initial sync and the
\* document-visible handler request play(), so no correction cycle ever
\* takes a paused element out of the paused state.
C20_PausedTickNoOp ==
  [][/\ (TickStep /\ paused)
          => /\ UNCHANGED <<currentTime, playbackRate, paused>>
             /\ ~last'.wroteTime
             /\ ~last'.wroteRate
             /\ ~last'.played
     /\ (variant = "hybrid" /\ (last'.played \/ (paused /\ ~paused')))
          => last'.op \in {"play", "visible"}]_vars

\* C20 witness: a correction cycle has run on a visible document with the
\* element paused and more than the hard-seek threshold away from the target.
C20_Witness ==
  /\ variant = "hybrid"
  /\ last.op = "tick"
  /\ last.band = "paused"
  /\ paused
  /\ ~hidden
  /\ duration \notin InvalidDurations
  /\ Abs(DriftNow) >= seekThreshold

\* C21.  Single timer: in every state of the hybrid controller at most one
\* interval timer is armed, and it is the one the `timer` variable holds, so
\* no two correction cycles are scheduled for the same period.
C21_SingleTimer ==
  variant = "hybrid"
    => /\ Cardinality(intervals) <= 1
       /\ \A t \in intervals : t.id = timer
       /\ (timer = NULL) <=> (intervals = {})

\* C21 witness: the visible handler has run while the timer was already
\* armed (its next firing is not a full period away), and one timer is armed.
C21_Witness ==
  /\ variant = "hybrid"
  /\ last.op = "visible"
  /\ Cardinality(intervals) = 1
  /\ \E t \in intervals : t.id = timer /\ t.due < now + CHECK_INTERVAL_MS

\* C22.  Post-teardown quiescence: once cleanup() has been called, no step
\* of either controller writes currentTime or playbackRate, calls play() or
\* runs a correction cycle, whatever event the step handles: a visibility
\* change, an ended event, or a timeout that was pending when cleanup ran.
C22_PostTeardownQuiescence ==
  [][cleanups > 0
       => /\ ~last'.wroteTime
          /\ ~last'.wroteRate
          /\ ~last'.played
          /\ last'.op # "tick"
          /\ playbackRate' = playbackRate]_vars

\* C22 witness: a timeout that was still pending when cleanup() ran has
\* fired afterwards.
C22_Witness ==
  /\ variant = "boundary"
  /\ cleanups > 0
  /\ stopped
  /\ last.op = "timeout"

\* C23.  Rate bounds: in every state of the hybrid controller, whatever
\* thresholds it was given, playbackRate is within [0.97, 1.03], and it is
\* exactly 1 in the state left by a negligible-band tick, by a hard-band
\* tick and by cleanup(); the rate formula stays in that range for drifts
\* beyond the hard threshold as well.
C23_RateBounds ==
  variant = "hybrid"
    => /\ playbackRate >= RATE_MIN
       /\ playbackRate <= RATE_MAX
       /\ (last.op = "tick" /\ last.band \in {"negligible", "hard"})
            => playbackRate = RATE_ONE
       /\ (last.op = "cleanup") => playbackRate = RATE_ONE
       /\ (pc = "idle")
            => \A o \in OptionSets, d \in DisturbSteps :
                 LET seek == IF o.driftSeek = NULL THEN DRIFT_SEEK ELSE o.driftSeek
                 IN  /\ newRate(d, seek) >= RATE_MIN
                     /\ newRate(d, seek) <= RATE_MAX

\* C23 witness: under thresholds other than the defaults a gradual-band
\* tick has written a rate above 1.
C23_Witness ==
  /\ variant = "hybrid"
  /\ seekThreshold # DRIFT_SEEK
  /\ last.op = "tick"
  /\ last.band = "gradual"
  /\ last.wroteRate
  /\ playbackRate > RATE_ONE

\* C24.  Bounded drift: a correction cycle on a playing element whose
\* duration is valid leaves |drift| strictly below the hard threshold
\* driftSeek (the seek taking effect at once).
C24_BoundedDrift ==
  [][(TickStep /\ ~paused /\ duration \notin InvalidDurations)
       => Abs(computeDrift(currentTime', dur, now')) < seekThreshold]_vars

\* C24 witness: a hard-band tick has found the playing element ahead of the
\* target by at least the hard threshold and left it on the target.
C24_Witness ==
  /\ variant = "hybrid"
  /\ last.op = "tick"
  /\ last.band = "hard"
  /\ last.drift < 0
  /\ -last.drift >= seekThreshold
  /\ ~paused
  /\ duration \notin InvalidDurations
  /\ DriftNow = 0

\* The step just taken was a gradual-band correction cycle.
GradualStep ==
  /\ TickStep
  /\ ~paused
  /\ Abs(DriftNow) >= ignoreThreshold
  /\ Abs(DriftNow) < seekThreshold

\* C25.  Rate-write deadband: a gradual-band tick writes playbackRate
\* exactly when the newly computed rate differs from the current one by
\* more than 0.001; otherwise it leaves playbackRate unchanged; it never
\* touches currentTime.
C25_RateWriteDeadband ==
  [][GradualStep
       => LET nr == newRate(DriftNow, seekThreshold)
          IN  /\ last'.band = "gradual"
              /\ last'.wroteRate <=> (Abs(playbackRate - nr) > RATE_EPS)
              /\ last'.wroteRate => playbackRate' = nr
              /\ ~last'.wroteRate => playbackRate' = playbackRate
              /\ currentTime' = currentTime
              /\ ~last'.wroteTime]_vars

\* C25 witness: a gradual-band tick has computed a rate that differs from
\* the current one by less than 0.001 and has not written it.
C25_Witness ==
  /\ variant = "hybrid"
  /\ last.op = "tick"
  /\ last.band = "gradual"
  /\ ~last.wroteRate
  /\ newRate(last.drift, seekThreshold) # playbackRate
  /\ Abs(newRate(last.drift, seekThreshold) - playbackRate) < RATE_EPS
  /\ playbackRate = last.rate0

\* C26.  Correction is never scheduled while hidden: in every state of the
\* hybrid controller in which the document is hidden, no interval timer is
\* armed, also when the document became hidden while startSync was still
\* awaiting its initial seek or play.
C26_NoTimerWhileHidden ==
  (variant = "hybrid" /\ hidden)
    => /\ timer = NULL
       /\ intervals = {}

\* C27.  Frame-callback throttle: with the requestVideoFrameCallback source,
\* any two runs of correct() are at least CHECK_INTERVAL_MS apart however
\* many frame callbacks fire; once cleanup() has run, correct() never runs
\* again and the frame callback that fires next does not register itself.
C27_FrameThrottle ==
  [][variant = "rvfc"
       => /\ \A a \in corrections', b \in corrections' :
               a < b => b - a >= CHECK_INTERVAL_MS
          /\ (last'.op = "tick") => now' \in corrections'
          /\ stopped
               => /\ corrections' = corrections
                  /\ last'.op # "tick"
                  /\ rvfcPending' => rvfcPending
                  /\ (last'.op = "frame") => ~rvfcPending']_vars

\* C27 witness: correct() has run at least twice from frame callbacks, with
\* callbacks in between that the throttle turned away, and the callback
\* that fired after cleanup() has not registered itself again.
C27_Witness ==
  /\ variant = "rvfc"
  /\ \E a \in corrections, b \in corrections :
       /\ b - a > CHECK_INTERVAL_MS
       /\ b - a < 2 * CHECK_INTERVAL_MS
       /\ \A c \in corrections : c <= a \/ c >= b
  /\ stopped
  /\ last.op = "frame"
  /\ ~rvfcPending

\* C28.  Teardown under both tick sources: whichever source startSync of
\* part_001 selected, the state cleanup() leaves has playbackRate 1, and no
\* correction cycle runs after it.
C28_TeardownBothSources ==
  [][(variant \in TickSources)
       => /\ (last'.op = "cleanup") => playbackRate' = RATE_ONE
          /\ stopped => /\ corrections' = corrections
                        /\ last'.op # "tick"]_vars

\* C29.  Wait-for-boundary controller: in every state at most one resumption
\* timeout is pending and, until teardown, pendingTimer is non-null exactly
\* when a timeout exists that has neither fired nor been cleared, and names
\* that timeout.
C29_SinglePendingTimeout ==
  variant = "boundary"
    => /\ Cardinality(timeouts) <= 1
       /\ ~stopped
            => /\ (pendingTimer # NULL) <=> (timeouts # {})
               /\ \A t \in timeouts : t.id = pendingTimer

C31_Unclamped(d) ==
  /\ rawRate(d, gain) > RATE_MIN_prop
  /\ rawRate(d, gain) < RATE_MAX_prop

\* The drift d1 found one interval after a drift d0 has the sign of d0 (or
\* is zero).
C31_SameSign(d0, d1) ==
  /\ (d0 > 0) => (d1 >= 0)
  /\ (d0 < 0) => (d1 <= 0)

\* C31 as stated: in the pure-proportional variant correct() never writes
\* currentTime; for |drift| >= driftIgnore it sets the rate to
\* clamp(1 + drift * gain, 0.5, 1.5); and with the default gain 0.4 and the 2 s
\* interval a cycle that follows an unclamped proportional cycle finds the
\* drift at about 20% (19% to 21%) of its value, the sign unchanged.
C31_ProportionalAsStated ==
  [][(variant = "proportional" /\ last'.op = "tick") =>
       /\ ~last'.wroteTime
       /\ currentTime' = currentTime
       /\ (last'.band = "proportional") =>
            (playbackRate' = newRate_prop(last'.drift, gain))
       /\ (/\ cycle.band = "proportional"
           /\ last'.band \in {"proportional", "negligible"}
           /\ gain = GAIN
           /\ C31_Unclamped(cycle.drift)) =>
            (/\ Abs(5 * last'.drift - cycle.drift) * 20 <= Abs(cycle.drift)
             /\ C31_SameSign(cycle.drift, last'.drift))]_vars

\* C31 amended: correct() never writes currentTime; for |drift| >=
\* driftIgnore it sets the rate to clamp(1 + drift * gain, 0.5, 1.5) unless the
\* current rate is within 0.001 of that value, and then it leaves the rate as
\* it is; with the default gain 0.4 and the 2 s interval, a cycle played at
\* exactly the unclamped proportional rate of its drift ends with the drift at
\* one fifth of its value and the sign unchanged, and any cycle that follows
\* an unclamped proportional cycle ends within 2 ms of one fifth.
C31_ProportionalRate ==
  [][(variant = "proportional" /\ last'.op = "tick") =>
       /\ ~last'.wroteTime
       /\ currentTime' = currentTime
       /\ (last'.band = "proportional") =>
            LET nr == newRate_prop(last'.drift, gain)
            IN  /\ Abs(last'.drift) >= ignoreThreshold
                /\ last'.wroteRate = (Abs(playbackRate - nr) > RATE_EPS)
                /\ last'.wroteRate => (playbackRate' = nr)
                /\ ~last'.wroteRate => (playbackRate' = playbackRate)
                /\ Abs(playbackRate' - nr) <= RATE_EPS
       /\ (/\ cycle.band = "proportional"
           /\ last'.band \in {"proportional", "negligible"}
           /\ gain = GAIN
           /\ C31_Unclamped(cycle.drift)) =>
            (/\ Abs(5 * last'.drift - cycle.drift) <= 5 * 20 * RATE_EPS
             /\ (playbackRate = rawRate(cycle.drift, gain)) =>
                  (/\ 5 * last'.drift = cycle.drift
                   /\ C31_SameSign(cycle.drift, last'.drift)))]_vars

\* A cycle has run at the unclamped proportional rate of a drift of at least
\* driftIgnore, written by correct(), with the default gain, and the next
\* cycle found one fifth of that drift.
C31_Witness ==
  /\ variant = "proportional"
  /\ last.op = "tick"
  /\ ~last.wroteTime
  /\ gain = GAIN
  /\ cycle.prevBand = "proportional"
  /\ cycle.band \in {"proportional", "negligible"}
  /\ Abs(cycle.prevDrift) >= ignoreThreshold
  /\ C31_Unclamped(cycle.prevDrift)
  /\ last.rate0 = rawRate(cycle.prevDrift, gain)
  /\ last.rate0 # RATE_ONE
  /\ 5 * cycle.drift = cycle.prevDrift

====
